---- MODULE Spec2Model ----
(***************************************************************************)
(* A verification model of the pint / yurt compiler core:                  *)
(*   - the package build driver        (pint-pkg/src/build.rs)             *)
(*   - the assembly generator          (pintc/src/asm_gen.rs)              *)
(*   - the scalarization lowering pass (yurtc/.../transform/scalarize.rs)  *)
(*   - the lowering passes run twice   (yurtc/.../transform/canonicalize.rs)*)
(*   - two builds of contracts sharing the temporary directory             *)
(* Each part has its own specification (SpecBuild, SpecAsm, SpecScal,      *)
(* SpecLower, SpecLib); the variables of the other parts stay at their     *)
(* idle values.                                                            *)
(***************************************************************************)
EXTENDS Integers, Sequences, FiniteSets, TLC

VARIABLES
    \* ---- build driver (PlanBuilder / build_pkg) ----
    plan,          \* the compilation Plan: kinds, edges, compilation order
    built_pkgs,    \* PlanBuilder.built_pkgs : NodeIx -> BuiltPkg
    order_it,      \* PlanBuilder.order : number of order entries consumed
    pc,            \* position of the driver inside build_all / build_pkg
    n,             \* PrebuiltPkg.n, the node being built (0: none)
    deps_in,       \* the dependency map handed to the parser for node n
    program_kind,  \* program.kind of the type-checked program of node n
    compiled,      \* CompiledProgram of node n as <<[name, ca], ...>>
    lib_i,         \* loop index of contract_dep_lib's for-loop
    fs,            \* the file system under std::env::temp_dir()
    pkg_err,       \* the BuildPkgErrorKind returned, "" when none
    log,           \* history: the stages run, as <<node, stage>>
    written,       \* the write_to_dir call made on the result: node and files written
    \* ---- assembly generator (predicate_to_asm) and the constraint VM ----
    predicate,     \* the Predicate handed to predicate_to_asm
    s_asm,         \* AsmBuilder.s_asm : the state-read programs
    c_asm,         \* AsmBuilder.c_asm : the constraint programs
    a_pc,          \* position inside predicate_to_asm / outcome / VM run
    a_i,           \* number of states and constraints consumed by the two loops
    has_errors,    \* handler.has_errors()
    vm_c,          \* the constraint program being executed (0: none)
    vm_pc,         \* program counter of the VM, 1-based
    stack,         \* the VM's operand stack
    vals,          \* the solution: the word of each private decision variable
    \* ---- scalarization (scalarize) ----
    intent,        \* the IntermediateIntent being lowered
    sc_pc,         \* position inside scalarize / outcome
    modified,      \* the modified flag of the running round of scalarize
    loop_check,    \* the loop_check counters of the iterate! loops
    old_tuple_vars,\* the tuple variables split_tuple_vars has split so far
    \* ---- the lowering passes run twice ----
    pass,          \* the run of the lowering passes under way (0: none)
    lowered,       \* the intent the first run of the lowering passes returned
    \* ---- two builds of contracts at the same time ----
    programs,      \* the type-checked, flattened Program each build compiles
    builds,        \* each build's position in build_pkg and its locals
    disk,          \* the files and directories under std::env::temp_dir()
    \* ---- the symbol table (SymbolTable) ----
    symbols,       \* SymbolTable.symbols : full name -> Span
    sym_handler,   \* the errors emitted to the Handler, in order
    sym_ret,       \* what the last insertion returned
    sym_decls,     \* history: the insertions made, in order
    \* ---- compile_program on one Program ----
    cp_program,    \* the Program handed to compile_program
    cp_pc,         \* position inside compile_program / outcome
    cp_i,          \* entries of program.preds the loop has consumed
    cp_names,      \* the local names
    cp_predicates, \* the local predicates
    cp_handler,    \* the errors of the Handler handed in, in order
    cp_ret,        \* the CompiledProgram returned, if any
    cp_log,        \* history: the names predicate_to_asm was called on
    \* ---- Contract::replace_exprs ----
    contract,      \* the Contract
    rp_args,       \* pred_key, old_expr and new_expr of the call
    rp_pc,         \* position: before the call, after it, after old_expr was removed
    rp_before,     \* history: the Contract when replace_exprs was called
    \* ---- one iterate! loop ----
    it_steps,      \* the number of times the loop's step reports a modification
    it_done,       \* the modifications the step has reported so far
    it_loop_check, \* the loop_check of the for loop
    it_modified,   \* the modified flag the loop sets
    it_pc          \* position: in the loop, after the break, returned Err

buildVars == <<plan, built_pkgs, order_it, pc, n, deps_in, program_kind,
               compiled, lib_i, fs, pkg_err, log, written>>

asmVars == <<predicate, s_asm, c_asm, a_pc, a_i, has_errors, vm_c, vm_pc, stack, vals>>

scalVars == <<intent, sc_pc, modified, loop_check, old_tuple_vars>>

lowerVars == <<pass, lowered>>

libVars == <<programs, builds, disk>>

symVars == <<symbols, sym_handler, sym_ret, sym_decls>>

progVars == <<cp_program, cp_pc, cp_i, cp_names, cp_predicates, cp_handler, cp_ret, cp_log>>

replVars == <<contract, rp_args, rp_pc, rp_before>>

iterVars == <<it_steps, it_done, it_loop_check, it_modified, it_pc>>

vars == <<buildVars, asmVars, scalVars, lowerVars, libVars, symVars, progVars, replVars, iterVars>>

\* what the build driver, the generator and scalarize leave alone
nonBuildVars == <<asmVars, scalVars, lowerVars, libVars, symVars, progVars, replVars, iterVars>>
nonAsmVars == <<buildVars, scalVars, lowerVars, libVars, symVars, progVars, replVars, iterVars>>
nonScalVars == <<buildVars, asmVars, lowerVars, libVars, symVars, progVars, replVars, iterVars>>
nonLibVars == <<buildVars, asmVars, scalVars, lowerVars, symVars, progVars, replVars, iterVars>>
nonSymVars == <<buildVars, asmVars, scalVars, lowerVars, libVars, progVars, replVars, iterVars>>
nonProgVars == <<buildVars, asmVars, scalVars, lowerVars, libVars, symVars, replVars, iterVars>>
nonReplVars == <<buildVars, asmVars, scalVars, lowerVars, libVars, symVars, progVars, iterVars>>
nonIterVars == <<buildVars, asmVars, scalVars, lowerVars, libVars, symVars, progVars, replVars>>

(***************************************************************************)
(* Generic helpers.                                                        *)
(***************************************************************************)
Range(s) == {s[i] : i \in DOMAIN s}

EmptyFn == [x \in {} |-> x]

FnPut(f, k, v) == [x \in DOMAIN f \cup {k} |-> IF x = k THEN v ELSE f[x]]

RECURSIVE SeqSum(_)
SeqSum(s) == IF s = <<>> THEN 0 ELSE Head(s) + SeqSum(Tail(s))

(***************************************************************************)
(* BUILD DRIVER                                                            *)
(***************************************************************************)
MaxNodes == 3
MaxCA == 1

Nodes == 1..MaxNodes

PackageKinds == {"Library", "Contract"}
ProgramKinds == {"Stateless", "Stateful"}

\* Compilation orders offered to the driver: node indices are arbitrary, so
\* the order need not be the index order.
Orders == {[i \in Nodes |-> i], [i \in Nodes |-> MaxNodes + 1 - i]}

PosOf(order, x) == CHOOSE i \in DOMAIN order : order[i] = x

\* Edge sets under which the order o lists every dependency before its
\* dependents (Plan::compilation_order is a topological order).
TopoSorted(e, o) ==
    \A x \in Nodes : \A d \in e[x] : PosOf(o, d) < PosOf(o, x)

EdgeSets(o) == {e \in [Nodes -> SUBSET Nodes] : TopoSorted(e, o)}

\* What compile_program may return for a contract: names with their
\* predicates, each predicate standing for its content address.
CompiledPrograms ==
    { <<[name |-> << >>, ca |-> c]>> : c \in 1..MaxCA } \cup
    { <<[name |-> <<"a">>, ca |-> 1], [name |-> <<"a", "::", "b">>, ca |-> 1]>> }

\* manifest.entry_point() of a package.
ManifestEntryPoint(x) == <<"pkg", x, "src", "main.pnt">>

\* slice::sort on content addresses.
RECURSIVE SortInsert(_, _)
SortInsert(x, s) ==
    IF s = << >> THEN <<x>>
    ELSE IF x <= Head(s) THEN <<x>> \o s
    ELSE <<Head(s)>> \o SortInsert(x, Tail(s))

RECURSIVE Sorted(_)
Sorted(s) == IF s = << >> THEN << >> ELSE SortInsert(Head(s), Sorted(Tail(s)))

\* ContractAddr over the addresses in the order given
ContractAddr_Unsorted(preds, salt) ==
    [addrs |-> [i \in DOMAIN preds |-> preds[i].ca], salt |-> salt]

\* essential_hash::contract_addr::from_predicate_addrs: the hash of the
\* sorted predicate addresses and the salt, kept as its preimage.
ContractAddr(preds, salt) ==
    [addrs |-> Sorted([i \in DOMAIN preds |-> preds[i].ca]), salt |-> salt]

\* `salt: Default::default()` of a [u8; 32]
SaltBytes == 32
Salt == [i \in 1..SaltBytes |-> 0]

\* str::split("::") on a token sequence.
RECURSIVE JoinTokens(_)
JoinTokens(toks) == IF toks = <<>> THEN "" ELSE Head(toks) \o JoinTokens(Tail(toks))

RECURSIVE Split(_)
Split(name) ==
    IF \A i \in DOMAIN name : name[i] /= "::"
    THEN <<JoinTokens(name)>>
    ELSE LET i == CHOOSE j \in DOMAIN name :
                    /\ name[j] = "::"
                    /\ \A k \in 1..(j - 1) : name[k] /= "::"
         IN <<JoinTokens(SubSeq(name, 1, i - 1))>> \o Split(SubSeq(name, i + 1, Len(name)))

\* std::env::temp_dir().join(format!("{:x}", ca))
TempDir(ca) == <<"tmp", ca>>

LibPath(ca) == TempDir(ca) \o <<"lib.pnt">>

AddressSrc(ca) == [decl |-> "const ADDRESS: b256", value |-> ca]

\* The submodule path of one predicate (contract_dep_lib's loop body).
\* PathBuf::extend pushes every segment, and pushing an empty segment adds
\* no component to the path.
SubmodPath(ca, name) ==
    LET submod0 == Split(name)
        submod == IF submod0 = <<"">> THEN <<"root">> ELSE submod0
        path == TempDir(ca) \o SelectSeq(submod, LAMBDA seg : seg /= "")
    IN SubSeq(path, 1, Len(path) - 1) \o <<path[Len(path)] \o ".pnt">>

\* The BuiltPkg that build_pkg returns for node x once every stage passed.
BuiltPkgOf(x) ==
    IF plan.kinds[x] = "Library"
    THEN [kind |-> "Library", program_kind |-> program_kind]
    ELSE LET ca == ContractAddr(compiled, Salt)
         IN [kind |-> "Contract",
             ca |-> ca,
             predicate_metadata |-> compiled,
             salt |-> Salt,
             lib_entry_point |-> LibPath(ca)]

\* Mutant: the manifest entry point is used for every dependency.
DepEntryPoint_AlwaysManifest(d) == ManifestEntryPoint(d)

\* dependencies(): the entry point of dependency d, read from built_pkgs.
DepEntryPoint(d) ==
    IF built_pkgs[d].kind = "Library"
    THEN ManifestEntryPoint(d)
    ELSE built_pkgs[d].lib_entry_point

\* Mutant: the driver records the error and goes on to the next package.
Fail_Continue(kind) ==
    /\ pkg_err' = kind
    /\ pc' = "next"

\* `return Err(BuildPkgError { handler, kind })` inside build_pkg, which
\* build_all turns into Err(BuildError { built_pkgs, pkg_err }).
Fail(kind) ==
    /\ pkg_err' = kind
    /\ pc' = "err"

Logged(stage) == log' = Append(log, <<n, stage>>)

\* the idle values of the generator's variables
AsmIdle ==
    /\ predicate = [vars |-> << >>]
    /\ s_asm = << >>
    /\ c_asm = << >>
    /\ a_pc = "idle"
    /\ a_i = 0
    /\ has_errors = FALSE
    /\ vm_c = 0
    /\ vm_pc = 0
    /\ stack = << >>
    /\ vals = << >>

ScalIdle ==
    /\ intent = [vars |-> << >>]
    /\ sc_pc = "idle"
    /\ modified = FALSE
    /\ loop_check = [outer |-> 0, inner |-> 0]
    /\ old_tuple_vars = << >>
    /\ pass = 0
    /\ lowered = [vars |-> << >>]

LibIdle ==
    /\ programs = << >>
    /\ builds = << >>
    /\ disk = EmptyFn

SymIdle ==
    /\ symbols = EmptyFn
    /\ sym_handler = << >>
    /\ sym_ret = [st |-> "idle", full_name |-> ""]
    /\ sym_decls = << >>

ProgIdle ==
    /\ cp_program = [kind |-> ""]
    /\ cp_pc = "idle"
    /\ cp_i = 0
    /\ cp_names = << >>
    /\ cp_predicates = << >>
    /\ cp_handler = << >>
    /\ cp_ret = << >>
    /\ cp_log = << >>

ReplIdle ==
    /\ contract = [exprs |-> EmptyFn]
    /\ rp_args = << >>
    /\ rp_pc = "idle"
    /\ rp_before = [exprs |-> EmptyFn]

IterIdle ==
    /\ it_steps = 0
    /\ it_done = 0
    /\ it_loop_check = 0
    /\ it_modified = FALSE
    /\ it_pc = "idle"

BuildInit ==
    /\ \E o \in Orders, k \in [Nodes -> PackageKinds] :
          \E e \in EdgeSets(o) :
             plan = [kinds |-> k, edges |-> e, order |-> o]
    /\ built_pkgs = EmptyFn
    /\ order_it = 0
    /\ pc = "next"
    /\ n = 0
    /\ deps_in = EmptyFn
    /\ program_kind = ""
    /\ compiled = << >>
    /\ lib_i = 0
    /\ fs = EmptyFn
    /\ pkg_err = ""
    /\ log = << >>
    /\ written = << >>
    /\ AsmIdle
    /\ ScalIdle
    /\ LibIdle
    /\ SymIdle
    /\ ProgIdle
    /\ ReplIdle
    /\ IterIdle

\* PlanBuilder::next_pkg as called by build_all's while-let.
NextPkg ==
    /\ pc = "next"
    /\ IF order_it < Len(plan.order)
       THEN /\ n' = plan.order[order_it + 1]
            /\ order_it' = order_it + 1
            /\ pc' = "deps"
       ELSE /\ pc' = "ok"
            /\ UNCHANGED <<n, order_it>>
    /\ deps_in' = EmptyFn
    /\ program_kind' = ""
    /\ compiled' = << >>
    /\ lib_i' = 0
    /\ UNCHANGED <<plan, built_pkgs, fs, pkg_err, log, written>>
    /\ UNCHANGED nonBuildVars

\* build_pkg, lines 291-296: collect the dependencies' entry points.
\* Indexing built_pkgs with a node that is not built panics.
Dependencies ==
    /\ pc = "deps"
    /\ IF plan.edges[n] \subseteq DOMAIN built_pkgs
       THEN /\ deps_in' = [d \in plan.edges[n] |-> DepEntryPoint(d)]
            /\ pc' = "parse"
       ELSE /\ pc' = "panic"
            /\ UNCHANGED deps_in
    /\ UNCHANGED <<plan, built_pkgs, order_it, n, program_kind, compiled,
                   lib_i, fs, pkg_err, log, written>>
    /\ UNCHANGED nonBuildVars

\* pintc::parser::parse_project
Parse ==
    /\ pc = "parse"
    /\ Logged("parse")
    /\ \E ok \in BOOLEAN :
          IF ok THEN pc' = "typecheck" /\ UNCHANGED pkg_err
                ELSE Fail("Parse")
    /\ UNCHANGED <<plan, built_pkgs, order_it, n, deps_in, program_kind,
                   compiled, lib_i, fs, written>>
    /\ UNCHANGED nonBuildVars

\* parsed.type_check, then the match on manifest.pkg.kind
TypeCheck ==
    /\ pc = "typecheck"
    /\ Logged("type_check")
    /\ \E r \in ProgramKinds \cup {"error"} :
          IF r /= "error"
          THEN /\ program_kind' = r
               /\ pc' = IF plan.kinds[n] = "Library" THEN "stateful_check"
                                                      ELSE "flatten"
               /\ UNCHANGED pkg_err
          ELSE /\ Fail("TypeCheck")
               /\ UNCHANGED program_kind
    /\ UNCHANGED <<plan, built_pkgs, order_it, n, deps_in, compiled, lib_i,
                   fs, written>>
    /\ UNCHANGED nonBuildVars

\* Mutant: the stateful check accepts every library.
StatefulCheck_AcceptAll ==
    /\ pc = "stateful_check"
    /\ Logged("stateful_check")
    /\ pc' = "insert"
    /\ UNCHANGED <<plan, built_pkgs, order_it, n, deps_in, program_kind,
                   compiled, lib_i, fs, written, pkg_err>>
    /\ UNCHANGED nonBuildVars

\* PackageKind::Library: reject a stateful program
StatefulCheck ==
    /\ pc = "stateful_check"
    /\ Logged("stateful_check")
    /\ IF program_kind = "Stateful"
       THEN Fail("StatefulLibrary")
       ELSE pc' = "insert" /\ UNCHANGED pkg_err
    /\ UNCHANGED <<plan, built_pkgs, order_it, n, deps_in, program_kind,
                   compiled, lib_i, fs, written>>
    /\ UNCHANGED nonBuildVars

\* program.flatten
Flatten ==
    /\ pc = "flatten"
    /\ Logged("flatten")
    /\ \E ok \in BOOLEAN :
          IF ok THEN pc' = "abi" /\ UNCHANGED pkg_err
                ELSE Fail("Flatten")
    /\ UNCHANGED <<plan, built_pkgs, order_it, n, deps_in, program_kind,
                   compiled, lib_i, fs, written>>
    /\ UNCHANGED nonBuildVars

\* flattened.abi
ABIGen ==
    /\ pc = "abi"
    /\ Logged("abi")
    /\ \E ok \in BOOLEAN :
          IF ok THEN pc' = "asm" /\ UNCHANGED pkg_err
                ELSE Fail("ABIGen")
    /\ UNCHANGED <<plan, built_pkgs, order_it, n, deps_in, program_kind,
                   compiled, lib_i, fs, written>>
    /\ UNCHANGED nonBuildVars

\* compile_program, then the predicates' and the contract's addresses
AsmGen ==
    /\ pc = "asm"
    /\ Logged("asm_gen")
    /\ \/ \E out \in CompiledPrograms :
             /\ compiled' = out
             /\ pc' = "lib_mkdir"
             /\ UNCHANGED pkg_err
       \/ /\ Fail("AsmGen")
          /\ UNCHANGED compiled
    /\ UNCHANGED <<plan, built_pkgs, order_it, n, deps_in, program_kind,
                   lib_i, fs, written>>
    /\ UNCHANGED nonBuildVars

\* contract_dep_lib: create_dir_all(temp_dir), then write lib.pnt
DepLibRoot ==
    /\ pc = "lib_mkdir"
    /\ Logged("dep_lib")
    /\ \E ok \in BOOLEAN :
          IF ok
          THEN LET ca == ContractAddr(compiled, Salt)
               IN /\ fs' = FnPut(fs, LibPath(ca), AddressSrc(ca))
                  /\ lib_i' = 1
                  /\ pc' = "lib_preds"
                  /\ UNCHANGED pkg_err
          ELSE /\ Fail("ContractLibrary")
               /\ UNCHANGED <<fs, lib_i>>
    /\ UNCHANGED <<plan, built_pkgs, order_it, n, deps_in, program_kind,
                   compiled, written>>
    /\ UNCHANGED nonBuildVars

\* contract_dep_lib: one iteration of `for predicate in predicates`, or the
\* `Ok(lib_path)` after the last one
DepLibPred ==
    /\ pc = "lib_preds"
    /\ IF lib_i <= Len(compiled)
       THEN \E ok \in BOOLEAN :
               IF ok
               THEN LET ca == ContractAddr(compiled, Salt)
                        p == compiled[lib_i]
                    IN /\ fs' = FnPut(fs, SubmodPath(ca, p.name), AddressSrc(p.ca))
                       /\ lib_i' = lib_i + 1
                       /\ UNCHANGED <<pc, pkg_err>>
               ELSE /\ Fail("ContractLibrary")
                    /\ UNCHANGED <<fs, lib_i>>
       ELSE /\ pc' = "insert"
            /\ UNCHANGED <<fs, lib_i, pkg_err>>
    /\ UNCHANGED <<plan, built_pkgs, order_it, n, deps_in, program_kind,
                   compiled, log, written>>
    /\ UNCHANGED nonBuildVars

\* PrebuiltPkg::build: built_pkgs.insert(n, built)
Insert ==
    /\ pc = "insert"
    /\ built_pkgs' = FnPut(built_pkgs, n, BuiltPkgOf(n))
    /\ pc' = "next"
    /\ UNCHANGED <<plan, order_it, n, deps_in, program_kind, compiled, lib_i,
                   fs, pkg_err, log, written>>
    /\ UNCHANGED nonBuildVars

\* The files BuiltPkg::write_to_dir writes when no write fails.
ArtifactFiles(x) ==
    IF built_pkgs[x].kind = "Library"
    THEN << >>
    ELSE << <<x, "json">>, <<x, "-abi", "json">> >>

\* One call of BuiltPkg::write_to_dir, on a package x of the map build_all
\* returned; k files are written before a write fails (k = all of them: no
\* failure).
WriteToDir ==
    /\ pc = "ok"
    /\ written = << >>
    /\ \E x \in DOMAIN built_pkgs :
          \E k \in 0..Len(ArtifactFiles(x)) :
             written' = <<[node |-> x, files |-> Range(SubSeq(ArtifactFiles(x), 1, k))]>>
    /\ UNCHANGED <<plan, built_pkgs, order_it, pc, n, deps_in, program_kind,
                   compiled, lib_i, fs, pkg_err, log>>
    /\ UNCHANGED nonBuildVars

BuildNext ==
    \/ NextPkg \/ Dependencies \/ Parse \/ TypeCheck \/ StatefulCheck
    \/ Flatten \/ ABIGen \/ AsmGen \/ DepLibRoot \/ DepLibPred \/ Insert
    \/ WriteToDir

SpecBuild == BuildInit /\ [][BuildNext]_vars

(***************************************************************************)
(* Claims about the build driver.                                          *)
(***************************************************************************)
BuiltPrefix(k) == DOMAIN built_pkgs = {plan.order[i] : i \in 1..k}

LogOf(x) == SelectSeq(log, LAMBDA e : e[1] = x)

StagesOf(kind) ==
    IF kind = "Library"
    THEN <<"parse", "type_check", "stateful_check">>
    ELSE <<"parse", "type_check", "flatten", "abi", "asm_gen", "dep_lib">>

ErrorStage(kind) ==
    CASE kind = "Parse" -> "parse"
      [] kind = "TypeCheck" -> "type_check"
      [] kind = "StatefulLibrary" -> "stateful_check"
      [] kind = "Flatten" -> "flatten"
      [] kind = "ABIGen" -> "abi"
      [] kind = "AsmGen" -> "asm_gen"
      [] kind = "ContractLibrary" -> "dep_lib"
      [] OTHER -> "none"

\* C1: build_all builds in the plan's compilation order and is fail-fast:
\* once a package fails the driver has stopped, the returned built_pkgs are
\* exactly the packages preceding the failing one, and a successful run
\* returns one entry for every node of the order.
T_C1_FailFastInOrder ==
    /\ \A i, j \in DOMAIN log :
          i < j => PosOf(plan.order, log[i][1]) <= PosOf(plan.order, log[j][1])
    /\ pkg_err /= "" => pc = "err"
    /\ pc = "err" =>
          /\ pkg_err /= ""
          /\ n = plan.order[order_it]
          /\ BuiltPrefix(order_it - 1)
          /\ \A i \in order_it..Len(plan.order) :
                plan.order[i] \notin DOMAIN built_pkgs
    /\ pc = "ok" =>
          /\ BuiltPrefix(Len(plan.order))
          /\ Cardinality(DOMAIN built_pkgs) = Len(plan.order)

\* C1 witness: the second package of the order failed, after one package
\* was built and with a later package left unbuilt.
W_C1_FailedInTheMiddle ==
    /\ pc = "err"
    /\ order_it = 2
    /\ DOMAIN built_pkgs = {plan.order[1]}
    /\ Len(plan.order) > 2

\* The files of the dependency library synthesized for built contract d.
DepLibFiles(d) ==
    {LibPath(built_pkgs[d].ca)} \cup
    {SubmodPath(built_pkgs[d].ca, built_pkgs[d].predicate_metadata[i].name) :
        i \in DOMAIN built_pkgs[d].predicate_metadata}

\* C2: when parsing of n begins every dependency d of n is recorded in
\* built_pkgs; a contract dependency has all files of its dependency
\* library written and is handed to the parser as its lib.pnt, a library
\* dependency as its manifest entry point.
T_C2_DepsReadyBeforeParse ==
    pc = "parse" =>
       \A d \in plan.edges[n] :
          /\ d \in DOMAIN built_pkgs
          /\ d \in DOMAIN deps_in
          /\ built_pkgs[d].kind = "Library" =>
                deps_in[d] = ManifestEntryPoint(d)
          /\ built_pkgs[d].kind = "Contract" =>
                /\ deps_in[d] = LibPath(built_pkgs[d].ca)
                /\ DepLibFiles(d) \subseteq DOMAIN fs
                /\ fs[LibPath(built_pkgs[d].ca)] = AddressSrc(built_pkgs[d].ca)

\* C2 witness: parsing begins for a package that depends on a contract with
\* two predicates and on a library.
W_C2_ParseWithContractDep ==
    /\ pc = "parse"
    /\ \E d \in plan.edges[n] :
          /\ built_pkgs[d].kind = "Contract"
          /\ Len(built_pkgs[d].predicate_metadata) = 2
    /\ \E d \in plan.edges[n] : built_pkgs[d].kind = "Library"

\* C3: the stages of build_pkg run in the fixed order of the package kind,
\* the first failing stage determines the error kind and is the last stage
\* run, the failing node is not recorded, a recorded node passed every
\* stage, a stateful library is rejected with StatefulLibrary, and
\* write_to_dir writes no file for a library.
T_C3_StageOrderAndErrors ==
    /\ \A x \in Nodes :
          LET l == LogOf(x)
              st == StagesOf(plan.kinds[x])
          IN /\ Len(l) <= Len(st)
             /\ \A i \in DOMAIN l : l[i][2] = st[i]
             /\ x \in DOMAIN built_pkgs => Len(l) = Len(st)
    /\ pc = "err" =>
          /\ log /= << >>
          /\ log[Len(log)] = <<n, ErrorStage(pkg_err)>>
          /\ n \notin DOMAIN built_pkgs
    /\ (/\ log /= << >>
        /\ log[Len(log)] = <<n, "stateful_check">>
        /\ program_kind = "Stateful")
          => (pc = "err" /\ pkg_err = "StatefulLibrary")
    /\ \A x \in DOMAIN built_pkgs :
          built_pkgs[x].kind = "Library" => built_pkgs[x].program_kind = "Stateless"
    /\ \A i \in DOMAIN written :
          built_pkgs[written[i].node].kind = "Library" => written[i].files = {}

\* C3 witness: a stateful library was rejected after another package had
\* been built.
W_C3_StatefulLibraryRejected ==
    /\ pc = "err"
    /\ pkg_err = "StatefulLibrary"
    /\ plan.kinds[n] = "Library"
    /\ program_kind = "Stateful"
    /\ DOMAIN built_pkgs /= {}

(***************************************************************************)
(* ASSEMBLY GENERATOR                                                      *)
(***************************************************************************)

\* ---- types (Type), as far as the generator queries them ----
TPrim(kind) == [k |-> kind, fields |-> << >>, n |-> 0]
TBool == TPrim("bool")
TInt == TPrim("int")
TB256 == TPrim("b256")
TTuple(fields) == [k |-> "tuple", fields |-> fields, n |-> 0]
TArray(el, size) == [k |-> "array", fields |-> <<el>>, n |-> size]
TMap(from, to) == [k |-> "map", fields |-> <<from, to>>, n |-> 0]

is_any_primitive(ty) == ty.k \in {"bool", "int", "b256"}
is_map(ty) == ty.k = "map"

\* Type::size: the words of a value on the stack.
RECURSIVE TySize(_)
TySize(ty) ==
    CASE ty.k \in {"bool", "int"} -> 1
      [] ty.k = "b256" -> 4
      [] ty.k = "tuple" -> SeqSum([i \in DOMAIN ty.fields |-> TySize(ty.fields[i])])
      [] ty.k = "array" -> ty.n * TySize(ty.fields[1])
      [] OTHER -> 1

\* Type::storage_slots: the slots of a value in state.
RECURSIVE StorageSlots(_)
StorageSlots(ty) ==
    CASE is_any_primitive(ty) -> 1
      [] ty.k = "tuple" ->
            SeqSum([i \in DOMAIN ty.fields |-> StorageSlots(ty.fields[i])])
      [] ty.k = "array" -> ty.n * StorageSlots(ty.fields[1])
      [] OTHER -> 1

\* ---- opcodes (Constraint and StateRead ops) ----
Push(v) == [op |-> "Push", arg |-> v]
Op(name) == [op |-> name, arg |-> 0]

\* Vec::insert(index, element) with a 0-based index no larger than the length.
VecInsert(asm, index, x) ==
    SubSeq(asm, 1, index) \o <<x>> \o SubSeq(asm, index + 1, Len(asm))

\* ---- expressions (Expr), each with its entry of the type table ----
Node(tag, op, name, args, val, ty) ==
    [tag |-> tag, op |-> op, name |-> name, args |-> args, val |-> val, ty |-> ty]

ImmInt(v) == Node("Immediate", "Int", "", << >>, v, TInt)
ImmBool(b) == Node("Immediate", "Bool", "", << >>, IF b THEN 1 ELSE 0, TBool)
\* a b256 literal whose four words are v, v+1, v+2, v+3
ImmB256(v) == Node("Immediate", "B256", "", << >>, v, TB256)
ImmNil == Node("Immediate", "Nil", "", << >>, 0, TInt)
Path(name, ty) == Node("PathByName", "", name, << >>, 0, ty)
Unary(op, e) == Node("UnaryOp", op, "", <<e>>, 0, e.ty)
Binary(op, l, r) ==
    Node("BinaryOp", op, "", <<l, r>>, 0,
         IF op \in {"Add", "Sub", "Mul", "Div", "Mod"} THEN l.ty ELSE TBool)
\* val = 1: a branch can panic (Expr::can_panic), 0: it cannot
Select(c, t, e, can_panic) == Node("Select", "", "", <<c, t, e>>, can_panic, t.ty)
Intrinsic(name, args, ty) == Node("IntrinsicCall", "", name, args, 0, ty)
StorageAccess(name, ty) == Node("StorageAccess", "", name, << >>, 0, ty)
ExternalStorageAccess(inst, name, ty) ==
    Node("ExternalStorageAccess", inst, name, << >>, 0, ty)
Index(e, i, ty) == Node("Index", "", "", <<e, i>>, 0, ty)
\* TupleAccess::Index(idx), idx 0-based, kept in val
TupleFieldAccess(t, idx) ==
    Node("TupleFieldAccess", "", "", <<t>>, idx, t.ty.fields[idx + 1])

\* ---- results of the compile functions ----
\* st: "ok", "err" (an Err(ErrorEmitted) was returned) or "panic";
\* asm: the output stream; loc: the Location; len: the op count returned.
LocValue == [k |-> "Value", n |-> 0, pw |-> ""]
LocDecisionVar(len) == [k |-> "DecisionVar", n |-> len, pw |-> ""]
LocTransient(pathway, len) == [k |-> "Transient", n |-> len, pw |-> pathway]
LocState(next) == [k |-> "State", n |-> next, pw |-> ""]

Res(st, asm, loc, len) == [st |-> st, asm |-> asm, loc |-> loc, len |-> len]
Ok(asm, loc) == Res("ok", asm, loc, 0)
Err(asm) == Res("err", asm, LocValue, 0)
Panic(asm) == Res("panic", asm, LocValue, 0)

\* Iterator::position on a sequence: the 0-based index of the first element
\* satisfying Test, -1 for None.
Position(seq, Test(_)) ==
    IF \E i \in DOMAIN seq : Test(seq[i])
    THEN (CHOOSE i \in DOMAIN seq :
             Test(seq[i]) /\ \A j \in 1..(i - 1) : ~Test(seq[j])) - 1
    ELSE -1

\* Sum of storage_slots of the first cnt types of a sequence of typed items.
SlotsBefore(items, cnt) ==
    SeqSum([i \in 1..cnt |-> StorageSlots(items[i].ty)])

\* the for-loop of compile_path over pred.predicate_instances: the first
\* instance whose interface declares a pub var called `<instance>::<var>`
extern_pub_var(asm, path, pred) ==
    LET InterfaceOf(pi) ==
          LET ii == Position(pred.interface_instances,
                             LAMBDA e : e.name = pi.interface_instance)
          IN IF ii < 0 THEN -1
             ELSE Position(pred.interfaces,
                           LAMBDA e : e.name = pred.interface_instances[ii + 1].interface)
        VarsOf(pi) ==
          LET fi == InterfaceOf(pi)
          IN IF fi < 0 THEN << >>
             ELSE LET pis == pred.interfaces[fi + 1].predicate_interfaces
                      k == Position(pis, LAMBDA e : e.name = pi.predicate)
                  IN IF k < 0 THEN << >> ELSE pis[k + 1].vars
        Index_(pi) == Position(VarsOf(pi), LAMBDA v : pi.name \o "::" \o v.name = path)
        hit == Position(pred.predicate_instances, LAMBDA pi : Index_(pi) >= 0)
    IN IF hit < 0
       THEN Err(asm)
       ELSE LET pi == pred.predicate_instances[hit + 1]
                transient_index == Index_(pi)
                var == VarsOf(pi)[transient_index + 1]
                pathway == "__" \o pi.name \o "_pathway"
            IN IF ~is_any_primitive(var.ty)
               THEN Ok(asm \o <<Push(transient_index), Push(0)>>,
                       LocTransient(pathway, 2))
               ELSE Ok(Append(asm, Push(transient_index)), LocTransient(pathway, 1))

\* compile_path with the state's position pushed as its slot index
compile_path_IndexAsSlot(asm, path, pred) ==
    LET priv == SelectSeq(pred.vars, LAMBDA v : ~v.is_pub)
        var_index == Position(priv, LAMBDA v : v.name = path)
        storage_index == Position(pred.states, LAMBDA st : st.name = path)
        var_pos == Position(pred.vars, LAMBDA v : v.name = path)
    IN IF var_index >= 0
       THEN Ok(Append(asm, Push(var_index)),
               LocDecisionVar(TySize(pred.vars[var_pos + 1].ty)))
       ELSE IF storage_index >= 0
       THEN Ok(Append(asm, Push(storage_index)), LocState(0))
       ELSE Err(asm)

\* compile_path with a variable's position among all variables as its index
compile_path_DeclIndex(asm, path, pred) ==
    LET priv == SelectSeq(pred.vars, LAMBDA v : ~v.is_pub)
        pubs == SelectSeq(pred.vars, LAMBDA v : v.is_pub)
        var_index == Position(priv, LAMBDA v : v.name = path)
        pub_var_index == Position(pubs, LAMBDA v : v.name = path)
        storage_index == Position(pred.states, LAMBDA st : st.name = path)
        var_pos == Position(pred.vars, LAMBDA v : v.name = path)
    IN IF var_index >= 0
       THEN Ok(Append(asm, Push(var_pos)),
               LocDecisionVar(TySize(pred.vars[var_pos + 1].ty)))
       ELSE IF pub_var_index >= 0
       THEN IF is_any_primitive(pred.vars[var_pos + 1].ty)
            THEN Ok(Append(asm, Push(var_pos)), LocTransient("", 1))
            ELSE Ok(asm \o <<Push(var_pos), Push(0)>>, LocTransient("", 2))
       ELSE IF storage_index >= 0
       THEN Ok(Append(asm, Push(SlotsBefore(pred.states, storage_index))),
               LocState(0))
       ELSE extern_pub_var(asm, path, pred)

\* AsmBuilder::compile_path
compile_path(asm, path, pred) ==
    LET priv == SelectSeq(pred.vars, LAMBDA v : ~v.is_pub)
        pubs == SelectSeq(pred.vars, LAMBDA v : v.is_pub)
        var_index == Position(priv, LAMBDA v : v.name = path)
        pub_var_index == Position(pubs, LAMBDA v : v.name = path)
        storage_index == Position(pred.states, LAMBDA st : st.name = path)
        var_pos == Position(pred.vars, LAMBDA v : v.name = path)
    IN IF var_index >= 0
       THEN Ok(Append(asm, Push(var_index)),
               LocDecisionVar(TySize(pred.vars[var_pos + 1].ty)))
       ELSE IF pub_var_index >= 0
       THEN IF is_any_primitive(pred.vars[var_pos + 1].ty)
            THEN Ok(Append(asm, Push(pub_var_index)), LocTransient("", 1))
            ELSE Ok(asm \o <<Push(pub_var_index), Push(0)>>, LocTransient("", 2))
       ELSE IF storage_index >= 0
       THEN Ok(Append(asm, Push(SlotsBefore(pred.states, storage_index))),
               LocState(0))
       ELSE extern_pub_var(asm, path, pred)

\* `let x = v;` : v is computed once and Body sees its value
Let(v, Body(_)) == CHOOSE y \in { Body(x) : x \in {v} } : TRUE

\* `?` on a Result: continue with Cont on Ok, return the Err (or unwind the
\* panic) otherwise.
Try(res, Cont(_)) == Let(res, LAMBDA r : IF r.st = "ok" THEN Cont(r) ELSE r)

\* compile_immediate, nested in compile_value_expr
RECURSIVE compile_immediate(_, _)
compile_immediate(asm, imm) ==
    CASE imm.op = "Int" -> Ok(Append(asm, Push(imm.val)), LocValue)
      [] imm.op = "B256" ->
            Ok(asm \o <<Push(imm.val), Push(imm.val + 1), Push(imm.val + 2),
                        Push(imm.val + 3)>>, LocValue)
      [] imm.op \in {"Array", "Tuple"} ->
            IF imm.args = << >>
            THEN Ok(asm, LocValue)
            ELSE Try(compile_immediate(asm, Head(imm.args)),
                     LAMBDA r : compile_immediate(r.asm, [imm EXCEPT !.args = Tail(@)]))
      [] OTHER -> Panic(asm)    \* unimplemented!: Error, Nil, Real, Bool, String

ArrayExpr(elements, ty) == Node("Array", "", "", elements, 0, ty)
TupleExpr(fields) ==
    Node("Tuple", "", "", fields, 0, TTuple([i \in DOMAIN fields |-> fields[i].ty]))


\* asm.extend / asm.push on the stream of an Ok result
Emit(r, ops) == [r EXCEPT !.asm = r.asm \o ops]

RECURSIVE compile_expr(_, _, _)
RECURSIVE compile_value_expr(_, _, _)
RECURSIVE compile_expr_pointer(_, _, _)
RECURSIVE compile_exprs(_, _, _)

\* AsmBuilder::compile_expr_pointer
compile_expr_pointer(asm, expr, pred) ==
    CASE expr.tag = "UnaryOp" ->
            IF expr.op = "NextState"
            THEN Try(compile_expr_pointer(asm, expr.args[1], pred),
                     LAMBDA r : Ok(r.asm, LocState(1)))
            ELSE Ok(asm, LocValue)
      [] expr.tag \in {"PathByName", "PathByKey"} ->
            compile_path(asm, expr.name, pred)
      [] expr.tag = "TupleFieldAccess" ->
            Try(compile_expr_pointer(asm, expr.args[1], pred),
                LAMBDA r :
                  IF r.loc.k \in {"State", "Transient"}
                  THEN IF expr.args[1].ty.k /= "tuple"
                       THEN Err(r.asm)
                       ELSE Ok(r.asm \o
                               <<Push(SlotsBefore(
                                    [i \in DOMAIN expr.args[1].ty.fields |->
                                        [ty |-> expr.args[1].ty.fields[i]]],
                                    expr.val)),
                                 Op("Add")>>, r.loc)
                  ELSE Panic(r.asm))
      [] OTHER -> Ok(asm, LocValue)

\* AsmBuilder::compile_expr
compile_expr(asm, expr, pred) ==
    LET old_asm_len == Len(asm)
        priv == SelectSeq(pred.vars, LAMBDA v : ~v.is_pub)
        Located(p) ==
          CASE p.loc.k = "Value" -> compile_value_expr(p.asm, expr, pred)
            [] p.loc.k = "DecisionVar" ->
                  IF p.loc.n = 1
                  THEN Emit(p, <<Op("DecisionVar")>>)
                  ELSE Emit(p, <<Push(0), Push(p.loc.n), Op("DecisionVarRange")>>)
            [] p.loc.k = "Transient" ->
                  IF p.loc.pw /= ""
                  THEN LET var_index == Position(priv, LAMBDA v : v.name = p.loc.pw)
                       IN IF var_index < 0
                          THEN Panic(Append(p.asm, Push(p.loc.n)))
                          ELSE Emit(p, <<Push(p.loc.n), Push(var_index),
                                         Op("DecisionVar"), Op("Transient")>>)
                  ELSE Emit(p, <<Push(p.loc.n), Op("ThisPathway"), Op("Transient")>>)
            [] p.loc.k = "State" ->
                  LET slots == StorageSlots(expr.ty)
                  IN IF slots = 1
                     THEN Emit(p, <<Push(p.loc.n), Op("State")>>)
                     ELSE Emit(p, <<Push(slots), Push(p.loc.n), Op("StateRange")>>)
    IN Try(compile_expr_pointer(asm, expr, pred),
           LAMBDA p : Try(Located(p),
                          LAMBDA r : Res("ok", r.asm, LocValue,
                                         Len(r.asm) - old_asm_len)))

\* the for-loops `for element in elements { compile_expr(..)?; }`
compile_exprs(asm, exprs, pred) ==
    IF exprs = << >>
    THEN Ok(asm, LocValue)
    ELSE Try(compile_expr(asm, Head(exprs), pred),
             LAMBDA r : compile_exprs(r.asm, Tail(exprs), pred))

BinaryOpcode(op) ==
    CASE op = "Add" -> Op("Add") [] op = "Sub" -> Op("Sub")
      [] op = "Mul" -> Op("Mul") [] op = "Div" -> Op("Div")
      [] op = "Mod" -> Op("Mod")
      [] op = "LessThanOrEqual" -> Op("Lte") [] op = "LessThan" -> Op("Lt")
      [] op = "GreaterThanOrEqual" -> Op("Gte") [] op = "GreaterThan" -> Op("Gt")

\* UnaryOp::Neg of compile_value_expr
compile_neg(asm, expr, pred) ==
    IF Len(asm) = 0
    THEN Panic(asm)       \* asm.len() - 1 underflows / insert index out of bounds
    ELSE Try(compile_expr(VecInsert(asm, Len(asm) - 1, Push(0)),
                          expr.args[1], pred),
             LAMBDA r : Emit(r, <<Op("Sub")>>))

\* BinaryOp::LogicalAnd / LogicalOr of compile_value_expr, after both
\* operands have been compiled into asm
short_circuit(asm, op, lhs_len, rhs_len) ==
    LET lhs_position == Len(asm) - rhs_len - lhs_len
        rhs_position == Len(asm) - rhs_len
        a1 == VecInsert(asm, lhs_position, Push(IF op = "LogicalAnd" THEN 0 ELSE 1))
        a2 == VecInsert(a1, lhs_position + 1, Push(rhs_len + 2))
    IN IF op = "LogicalAnd"
       THEN LET a3 == VecInsert(a2, rhs_position + 2, Op("Not"))
                a4 == VecInsert(a3, rhs_position + 3, Op("JumpForwardIf"))
            IN VecInsert(a4, rhs_position + 4, Op("Pop"))
       ELSE LET a3 == VecInsert(a2, rhs_position + 2, Op("JumpForwardIf"))
            IN VecInsert(a3, rhs_position + 3, Op("Pop"))

\* Expr::BinaryOp of compile_value_expr
compile_binary(asm, expr, pred) ==
    LET lhs == expr.args[1]
        rhs == expr.args[2]
    IN Try(compile_expr(asm, lhs, pred), LAMBDA l :
       Try(compile_expr(l.asm, rhs, pred), LAMBDA r :
         CASE expr.op = "Equal" ->
                LET type_size == TySize(lhs.ty)
                IN IF type_size = 1
                   THEN Emit(r, <<Op("Eq")>>)
                   ELSE Emit(r, <<Push(type_size), Op("EqRange")>>)
           [] expr.op = "NotEqual" -> Emit(r, <<Op("Eq"), Op("Not")>>)
           [] expr.op \in {"LogicalAnd", "LogicalOr"} ->
                Ok(short_circuit(r.asm, expr.op, l.len, r.len), LocValue)
           [] OTHER -> Emit(r, <<BinaryOpcode(expr.op)>>)))

\* Expr::Select of compile_value_expr
compile_select(asm, expr, pred) ==
    LET condition == expr.args[1]
        then_expr == expr.args[2]
        else_expr == expr.args[3]
        Patch(a, idx, op) == [a EXCEPT ![idx + 1] = op]
    IN IF expr.val = 1
       THEN LET to_then_jump_idx == Len(asm)
            IN Try(compile_expr(Append(asm, Push(-1)), condition, pred), LAMBDA c :
               Try(compile_expr(Append(c.asm, Op("JumpForwardIf")), else_expr, pred),
                   LAMBDA el :
               LET a1 == Patch(el.asm, to_then_jump_idx, Push(el.len + 4))
                   to_end_jump_idx == Len(a1)
                   a2 == a1 \o <<Push(-1), Push(1), Op("JumpForwardIf")>>
               IN Try(compile_expr(a2, then_expr, pred), LAMBDA th :
                      Ok(Patch(th.asm, to_end_jump_idx, Push(th.len + 1)),
                         LocValue))))
       ELSE LET type_size == TySize(then_expr.ty)
            IN Try(compile_expr(asm, else_expr, pred), LAMBDA el :
               Try(compile_expr(el.asm, then_expr, pred), LAMBDA th :
                 IF type_size = 1
                 THEN Try(compile_expr(th.asm, condition, pred),
                          LAMBDA c : Emit(c, <<Op("Select")>>))
                 ELSE Try(compile_expr(Append(th.asm, Push(type_size)),
                                       condition, pred),
                          LAMBDA c : Emit(c, <<Op("SelectRange")>>))))

is_b256(ty) == ty.k = "b256"
is_int(ty) == ty.k = "int"

\* Expr::IntrinsicCall of compile_value_expr; a failed assert!/expect is a panic
compile_intrinsic(asm, expr, pred) ==
    LET args == expr.args
        NoArgs(op) == IF args = << >> THEN Ok(Append(asm, op), LocValue)
                      ELSE Panic(asm)
    IN CASE expr.name = "__mut_keys_len" -> NoArgs(Op("MutKeysLen"))
         [] expr.name = "__mut_keys_contains" ->
              IF Len(args) /= 1 \/ args[1].ty.k /= "array"
                 \/ ~is_int(args[1].ty.fields[1])
              THEN Panic(asm)
              ELSE Try(compile_expr(asm, args[1], pred), LAMBDA r :
                       Emit(r, <<Push(TySize(args[1].ty)), Op("MutKeysContains")>>))
         [] expr.name = "__this_address" -> NoArgs(Op("ThisAddress"))
         [] expr.name = "__this_set_address" -> NoArgs(Op("ThisContractAddress"))
         [] expr.name = "__this_pathway" -> NoArgs(Op("ThisPathway"))
         [] expr.name = "__sha256" ->
              IF Len(args) /= 1 THEN Panic(asm)
              ELSE Try(compile_expr(asm, args[1], pred), LAMBDA r :
                       Emit(r, <<Push(TySize(args[1].ty)), Op("Sha256")>>))
         [] expr.name = "__verify_ed25519" ->
              IF Len(args) /= 3 \/ args[2].ty.k /= "tuple"
                 \/ args[2].ty.fields /= <<TB256, TB256>> \/ ~is_b256(args[3].ty)
              THEN Panic(asm)
              ELSE Try(compile_expr(asm, args[1], pred), LAMBDA d :
                   Try(compile_expr(Append(d.asm, Push(TySize(args[1].ty))),
                                    args[2], pred), LAMBDA s :
                   Try(compile_expr(s.asm, args[3], pred), LAMBDA k :
                       Emit(k, <<Op("VerifyEd25519")>>))))
         [] expr.name = "__recover_secp256k1" ->
              IF Len(args) /= 2 \/ ~is_b256(args[1].ty) \/ args[2].ty.k /= "tuple"
                 \/ args[2].ty.fields /= <<TB256, TB256, TInt>>
              THEN Panic(asm)
              ELSE Try(compile_expr(asm, args[1], pred), LAMBDA d :
                   Try(compile_expr(d.asm, args[2], pred), LAMBDA s :
                       Emit(s, <<Op("RecoverSecp256k1")>>)))
         [] expr.name = "__state_len" ->
              IF Len(args) /= 1
                 \/ ~(\/ /\ args[1].tag \in {"PathByName", "PathByKey"}
                         /\ \E i \in DOMAIN pred.states :
                               pred.states[i].name = args[1].name
                      \/ args[1].tag = "UnaryOp" /\ args[1].op = "NextState")
              THEN Panic(asm)
              ELSE Try(compile_expr(asm, args[1], pred), LAMBDA r :
                       IF r.asm /= << >>
                          /\ r.asm[Len(r.asm)].op \in {"State", "StateRange"}
                       THEN Ok(Append(SubSeq(r.asm, 1, Len(r.asm) - 1),
                                      Op("StateLen")), LocValue)
                       ELSE Panic(r.asm))
         [] OTHER -> Err(asm)

\* AsmBuilder::compile_value_expr
compile_value_expr(asm, expr, pred) ==
    LET old_asm_len == Len(asm)
        body ==
          CASE expr.tag = "Immediate" -> compile_immediate(asm, expr)
            [] expr.tag \in {"Array", "Tuple"} -> compile_exprs(asm, expr.args, pred)
            [] expr.tag = "BinaryOp" -> compile_binary(asm, expr, pred)
            [] expr.tag = "UnaryOp" ->
                  CASE expr.op = "Not" ->
                         Try(compile_expr(asm, expr.args[1], pred),
                             LAMBDA r : Emit(r, <<Op("Not")>>))
                    [] expr.op = "NextState" -> Err(asm)
                    [] expr.op = "Neg" -> compile_neg(asm, expr, pred)
                    [] OTHER -> Panic(asm)
            [] expr.tag = "IntrinsicCall" -> compile_intrinsic(asm, expr, pred)
            [] expr.tag = "Select" -> compile_select(asm, expr, pred)
            [] OTHER -> Err(asm)
    IN Try(body, LAMBDA r : Res("ok", r.asm, LocValue, Len(r.asm) - old_asm_len))

\* StorageKey results of compile_state_key: the stream, the StorageKeyKind
\* (Static with its key words, Dynamic with its size) and is_extern.
KeyRes(st, asm, kind, key, size, is_extern) ==
    [st |-> st, asm |-> asm, kind |-> kind, key |-> key, size |-> size,
     is_extern |-> is_extern]
KeyStatic(asm, key, is_extern) == KeyRes("ok", asm, "Static", key, 0, is_extern)
KeyDynamic(asm, size, is_extern) == KeyRes("ok", asm, "Dynamic", << >>, size, is_extern)
KeyErr(asm) == KeyRes("err", asm, "Static", << >>, 0, FALSE)
KeyPanic(asm) == KeyRes("panic", asm, "Static", << >>, 0, FALSE)

\* StorageKey::len
KeyLen(k) == IF k.kind = "Static" THEN Len(k.key) ELSE k.size

\* the intrinsic names for which name.ends_with("__storage_get") and
\* name.ends_with("__storage_get_extern") hold
StorageGetNames == {"__storage_get", "std::__storage_get"}
StorageGetExternNames == {"__storage_get_extern", "std::__storage_get_extern"}

\* the key of a variable of a storage block: [index] or [index, 0]
storage_var_key(key_asm, storage, name, is_extern) ==
    LET storage_index == Position(storage, LAMBDA v : v.name = name)
    IN IF storage_index < 0
       THEN KeyPanic(key_asm)
       ELSE LET ty == storage[storage_index + 1].ty
            IN IF is_any_primitive(ty) \/ is_map(ty)
               THEN KeyStatic(Append(key_asm, Push(storage_index)),
                              <<storage_index>>, is_extern)
               ELSE KeyStatic(key_asm \o <<Push(storage_index), Push(0)>>,
                              <<storage_index, 0>>, is_extern)

\* `?` inside compile_state_key, on the result of compile_expr or of a
\* nested compile_state_key
TryKey(res, Cont(_)) ==
    Let(res, LAMBDA r : IF r.st = "ok" THEN Cont(r)
                        ELSE IF r.st = "err" THEN KeyErr(r.asm) ELSE KeyPanic(r.asm))

RECURSIVE compile_state_key(_, _, _)

\* compile_state_key that leaves the recorded static key as it was when a
\* tuple field is accessed
compile_state_key_StaleKey(key_asm, expr, pred) ==
    CASE expr.tag = "IntrinsicCall" ->
           IF expr.name \in StorageGetNames \cup StorageGetExternNames
           THEN LET is_extern == expr.name \in StorageGetExternNames
                    arity == IF is_extern THEN 2 ELSE 1
                IN IF Len(expr.args) /= arity THEN KeyPanic(key_asm)
                   ELSE IF expr.args[arity].ty.k /= "array" THEN KeyErr(key_asm)
                   ELSE TryKey(compile_exprs(<< >>, expr.args, pred), LAMBDA r :
                               KeyDynamic(key_asm \o r.asm, expr.args[arity].ty.n,
                                          is_extern))
           ELSE KeyPanic(key_asm)
      [] expr.tag = "StorageAccess" ->
           IF ~pred.storage.some
           THEN KeyPanic(key_asm)
           ELSE storage_var_key(key_asm, pred.storage.vars, expr.name, FALSE)
      [] expr.tag = "ExternalStorageAccess" ->
           LET ii == Position(pred.interface_instances,
                              LAMBDA e : e.name = expr.op)
               fi == Position(pred.interfaces,
                              LAMBDA e : e.name =
                                         pred.interface_instances[ii + 1].interface)
           IN IF ii < 0 THEN KeyPanic(key_asm)
              ELSE TryKey(compile_expr(<< >>, pred.interface_instances[ii + 1].address,
                                       pred), LAMBDA r :
                     IF fi < 0 \/ ~pred.interfaces[fi + 1].storage.some
                     THEN KeyPanic(key_asm \o r.asm)
                     ELSE storage_var_key(key_asm \o r.asm,
                                          pred.interfaces[fi + 1].storage.vars,
                                          expr.name, TRUE))
      [] expr.tag = "Index" ->
           TryKey(compile_state_key(key_asm, expr.args[1], pred), LAMBDA storage_key :
           TryKey(compile_expr(<< >>, expr.args[2], pred), LAMBDA r :
             IF ~(is_any_primitive(expr.ty) \/ is_map(expr.ty))
             THEN KeyDynamic(storage_key.asm \o r.asm \o <<Push(0)>>,
                             KeyLen(storage_key) + TySize(expr.args[2].ty) + 1,
                             storage_key.is_extern)
             ELSE KeyDynamic(storage_key.asm \o r.asm,
                             KeyLen(storage_key) + TySize(expr.args[2].ty),
                             storage_key.is_extern)))
      [] expr.tag = "TupleFieldAccess" ->
           TryKey(compile_state_key(key_asm, expr.args[1], pred), LAMBDA sk :
             IF expr.args[1].ty.k /= "tuple" THEN KeyErr(sk.asm)
             ELSE LET key_offset ==
                        SlotsBefore([i \in DOMAIN expr.args[1].ty.fields |->
                                        [ty |-> expr.args[1].ty.fields[i]]], expr.val)
                      len == Len(sk.key)
                  IN IF sk.kind = "Dynamic"
                     THEN KeyDynamic(sk.asm \o <<Push(key_offset), Op("Add")>>,
                                     sk.size, sk.is_extern)
                     ELSE KeyStatic(sk.asm \o <<Op("Pop"),
                                                Push(sk.key[len] + key_offset)>>,
                                    sk.key,
                                    sk.is_extern))
      [] OTHER -> KeyPanic(key_asm)

\* AsmBuilder::compile_state_key
compile_state_key(key_asm, expr, pred) ==
    CASE expr.tag = "IntrinsicCall" ->
           IF expr.name \in StorageGetNames \cup StorageGetExternNames
           THEN LET is_extern == expr.name \in StorageGetExternNames
                    arity == IF is_extern THEN 2 ELSE 1
                IN IF Len(expr.args) /= arity THEN KeyPanic(key_asm)
                   ELSE IF expr.args[arity].ty.k /= "array" THEN KeyErr(key_asm)
                   ELSE TryKey(compile_exprs(<< >>, expr.args, pred), LAMBDA r :
                               KeyDynamic(key_asm \o r.asm, expr.args[arity].ty.n,
                                          is_extern))
           ELSE KeyPanic(key_asm)
      [] expr.tag = "StorageAccess" ->
           IF ~pred.storage.some
           THEN KeyPanic(key_asm)
           ELSE storage_var_key(key_asm, pred.storage.vars, expr.name, FALSE)
      [] expr.tag = "ExternalStorageAccess" ->
           LET ii == Position(pred.interface_instances,
                              LAMBDA e : e.name = expr.op)
               fi == Position(pred.interfaces,
                              LAMBDA e : e.name =
                                         pred.interface_instances[ii + 1].interface)
           IN IF ii < 0 THEN KeyPanic(key_asm)
              ELSE TryKey(compile_expr(<< >>, pred.interface_instances[ii + 1].address,
                                       pred), LAMBDA r :
                     IF fi < 0 \/ ~pred.interfaces[fi + 1].storage.some
                     THEN KeyPanic(key_asm \o r.asm)
                     ELSE storage_var_key(key_asm \o r.asm,
                                          pred.interfaces[fi + 1].storage.vars,
                                          expr.name, TRUE))
      [] expr.tag = "Index" ->
           TryKey(compile_state_key(key_asm, expr.args[1], pred), LAMBDA storage_key :
           TryKey(compile_expr(<< >>, expr.args[2], pred), LAMBDA r :
             IF ~(is_any_primitive(expr.ty) \/ is_map(expr.ty))
             THEN KeyDynamic(storage_key.asm \o r.asm \o <<Push(0)>>,
                             KeyLen(storage_key) + TySize(expr.args[2].ty) + 1,
                             storage_key.is_extern)
             ELSE KeyDynamic(storage_key.asm \o r.asm,
                             KeyLen(storage_key) + TySize(expr.args[2].ty),
                             storage_key.is_extern)))
      [] expr.tag = "TupleFieldAccess" ->
           TryKey(compile_state_key(key_asm, expr.args[1], pred), LAMBDA sk :
             IF expr.args[1].ty.k /= "tuple" THEN KeyErr(sk.asm)
             ELSE LET key_offset ==
                        SlotsBefore([i \in DOMAIN expr.args[1].ty.fields |->
                                        [ty |-> expr.args[1].ty.fields[i]]], expr.val)
                      len == Len(sk.key)
                  IN IF sk.kind = "Dynamic"
                     THEN KeyDynamic(sk.asm \o <<Push(key_offset), Op("Add")>>,
                                     sk.size, sk.is_extern)
                     ELSE KeyStatic(sk.asm \o <<Op("Pop"),
                                                Push(sk.key[len] + key_offset)>>,
                                    [sk.key EXCEPT ![len] = @ + key_offset],
                                    sk.is_extern))
      [] OTHER -> KeyPanic(key_asm)

\* compile_state reading every key with KeyRange
compile_state_AlwaysKeyRange(state, pred) ==
    Let(compile_state_key(<< >>, state.expr, pred), LAMBDA storage_key :
        IF storage_key.st /= "ok"
        THEN [st |-> storage_key.st, asm |-> << >>]
        ELSE [st |-> "ok",
              asm |-> storage_key.asm \o
                      <<Push(StorageSlots(state.expr.ty)), Op("AllocSlots"),
                        Push(KeyLen(storage_key)),
                        Push(StorageSlots(state.expr.ty)), Push(0),
                        Op("KeyRange"), Op("Halt")>>])

\* compile_state without the slot allocation
compile_state_NoAllocSlots(state, pred) ==
    Let(compile_state_key(<< >>, state.expr, pred), LAMBDA storage_key :
        IF storage_key.st /= "ok"
        THEN [st |-> storage_key.st, asm |-> << >>]
        ELSE [st |-> "ok",
              asm |-> storage_key.asm \o
                      <<Push(KeyLen(storage_key)),
                        Push(StorageSlots(state.expr.ty)), Push(0),
                        IF storage_key.is_extern THEN Op("KeyRangeExtern")
                                                 ELSE Op("KeyRange"),
                        Op("Halt")>>])

\* AsmBuilder::compile_state: the state-read program of one state variable
compile_state(state, pred) ==
    Let(compile_state_key(<< >>, state.expr, pred), LAMBDA storage_key :
        IF storage_key.st /= "ok"
        THEN [st |-> storage_key.st, asm |-> << >>]
        ELSE [st |-> "ok",
              asm |-> storage_key.asm \o
                      <<Push(StorageSlots(state.expr.ty)), Op("AllocSlots"),
                        Push(KeyLen(storage_key)),
                        Push(StorageSlots(state.expr.ty)), Push(0),
                        IF storage_key.is_extern THEN Op("KeyRangeExtern")
                                                 ELSE Op("KeyRange"),
                        Op("Halt")>>])

(***************************************************************************)
(* The predicates handed to the generator.  They are what the earlier      *)
(* passes deliver: type-checked, every expression with its type entry,     *)
(* names of variables and states distinct.                                 *)
(***************************************************************************)
MaxStates == 2      \* state variables declared by a predicate
MaxLit == 1         \* integer literals range over 0..MaxLit

Var(name, is_pub, ty) == [name |-> name, is_pub |-> is_pub, ty |-> ty]
StateVar(name, expr) == [name |-> name, expr |-> expr, ty |-> expr.ty]
SomeStorage(vs) == [some |-> TRUE, vars |-> vs]

\* private decision variables, in declaration order
PredVars ==
    <<Var("a", FALSE, TBool), Var("b", FALSE, TBool), Var("x", FALSE, TInt),
      Var("k", FALSE, TB256)>>

TPair == TTuple(<<TInt, TInt>>)

\* { int, { int, int }, int }
TNested == TTuple(<<TInt, TPair, TInt>>)

PredStorage ==
    SomeStorage(<<Var("x", FALSE, TInt), Var("t", FALSE, TPair),
                  Var("m", FALSE, TMap(TInt, TInt)), Var("n", FALSE, TNested)>>)

PredInterfaces ==
    <<[name |-> "FooI",
       storage |-> SomeStorage(<<Var("y", FALSE, TB256), Var("u", FALSE, TPair)>>),
       predicate_interfaces |-> << >>]>>

PredInterfaceInstances ==
    <<[name |-> "Foo", interface |-> "FooI", address |-> ImmB256(5)]>>

\* the state declarations a predicate draws from
StateDecls ==
    { StateVar("s0", StorageAccess("x", TInt)),
      StateVar("s1", StorageAccess("t", TPair)),
      StateVar("s2", Index(StorageAccess("m", TMap(TInt, TInt)), ImmInt(3), TInt)),
      StateVar("s3", ExternalStorageAccess("Foo", "u", TPair)),
      StateVar("s4", TupleFieldAccess(StorageAccess("t", TPair), 1)),
      StateVar("s5", Intrinsic("__storage_get", <<ImmInt(0)>>, TInt)),
      StateVar("s6", TupleFieldAccess(
                        TupleFieldAccess(StorageAccess("n", TNested), 1), 1)),
      StateVar("s7", TupleFieldAccess(ExternalStorageAccess("Foo", "u", TPair), 1)),
      StateVar("s8", TupleFieldAccess(StorageAccess("n", TNested), 2)) }

StateLists ==
    { sts \in UNION { [1..len -> StateDecls] : len \in 0..MaxStates } :
         \A i, j \in DOMAIN sts : i /= j => sts[i] /= sts[j] }

BoolAtoms == { Path("a", TBool), Path("b", TBool) }
IntAtoms == { Path("x", TInt) } \cup { ImmInt(v) : v \in 0..MaxLit }
IntTerms ==
    IntAtoms \cup { Unary("Neg", Path("x", TInt)) }
             \cup { Binary("Add", Path("x", TInt), ImmInt(v)) : v \in 1..MaxLit }
Comparisons ==
    { Binary("LessThan", t, Path("x", TInt)) : t \in IntTerms }
      \cup { Binary("LessThan", Path("x", TInt), Unary("Neg", Path("x", TInt))),
             Binary("Equal", Path("x", TInt), ImmInt(MaxLit)),
             Binary("NotEqual", Path("x", TInt), ImmInt(MaxLit)) }
LogicalOps == {"LogicalAnd", "LogicalOr"}
Bool0 == BoolAtoms \cup { Unary("Not", Path("a", TBool)) }
Bool1 == Bool0 \cup Comparisons
Bool2 == { Binary(op, p, q) : op \in LogicalOps, p \in Bool1, q \in Bool1 }
Bool2Small == { Binary(op, p, q) : op \in LogicalOps, p \in Bool0, q \in Bool0 }
Bool3 ==
    { Binary(op, p, q) : op \in LogicalOps, p \in Bool2Small, q \in BoolAtoms }
      \cup { Binary(op, q, p) : op \in LogicalOps, p \in Bool2Small, q \in BoolAtoms }

WideConstraints ==
    { Path("undeclared", TBool) } \cup
    { Binary(op, Path("k", TB256), r) :
         op \in {"Equal", "NotEqual"}, r \in {Path("k", TB256), ImmB256(1)} }
      \cup { Binary("Equal", Select(Path("a", TBool), t, t, 0), t) :
                t \in {Path("x", TInt), Path("k", TB256)} }

\* constraints over the states of a predicate: `s' == s` and `s == t'` for
\* states s, t of one type
StateConstraints(sts) ==
    { Binary("Equal", Unary("NextState", Path(sts[i].name, sts[i].ty)),
             Path(sts[i].name, sts[i].ty)) : i \in DOMAIN sts }
      \cup { Binary("Equal", Path(sts[p[1]].name, sts[p[1]].ty),
                    Unary("NextState", Path(sts[p[2]].name, sts[p[2]].ty))) :
                p \in { q \in (DOMAIN sts) \X (DOMAIN sts) : sts[q[1]].ty = sts[q[2]].ty } }

Pred(sts, cs) ==
    [vars |-> PredVars, states |-> sts, storage |-> PredStorage,
     interfaces |-> PredInterfaces, interface_instances |-> PredInterfaceInstances,
     predicate_instances |-> << >>, constraints |-> cs]

\* ---- predicates that mix private and public variables of both widths ----
MaxVars == 3        \* decision variables such a predicate declares

\* v1 .. vMaxVars in declaration order, each private or public, int or b256
SlotVarLists ==
    { [i \in 1..MaxVars |-> Var("v" \o ToString(i), pub[i], ty[i])] :
         pub \in [1..MaxVars -> BOOLEAN], ty \in [1..MaxVars -> {TInt, TB256}] }

\* an interface whose predicate Bar publishes w and z, and the instance I of
\* that predicate; its pathway is the private variable __I_pathway
SlotInterfaces ==
    <<[name |-> "FooI",
       storage |-> SomeStorage(<<Var("y", FALSE, TB256), Var("u", FALSE, TPair)>>),
       predicate_interfaces |->
          <<[name |-> "Bar",
             vars |-> <<Var("w", TRUE, TInt), Var("z", TRUE, TB256)>>]>>]>>

SlotPredicateInstances ==
    <<[name |-> "I", interface_instance |-> "Foo", predicate |-> "Bar"]>>

PathwayVar == Var("__I_pathway", FALSE, TInt)

\* `constraint p == p` for a path p
SelfEqual(name, ty) == Binary("Equal", Path(name, ty), Path(name, ty))

SlotPred(vs, sts, c) ==
    [vars |-> Append(vs, PathwayVar), states |-> sts, storage |-> PredStorage,
     interfaces |-> SlotInterfaces, interface_instances |-> PredInterfaceInstances,
     predicate_instances |-> SlotPredicateInstances, constraints |-> <<c>>]

\* predicates in which one name has several declarations (the later match is
\* shadowed): a variable and a state, a variable and an external public
\* variable, a private and a public variable
ShadowPredicates ==
    LET s0 == StateVar("s0", StorageAccess("x", TInt))
    IN { SlotPred(<<Var("v1", TRUE, TB256), Var("s0", is_pub, TInt)>>, <<s0>>,
                  SelfEqual("s0", TInt)) : is_pub \in BOOLEAN }
       \cup { SlotPred(<<Var("v1", is_pub, TB256), Var("I::w", is_pub, TInt)>>, << >>,
                       SelfEqual("I::w", TInt)) : is_pub \in BOOLEAN }
       \cup { SlotPred(<<Var("v1", TRUE, TInt), Var("v2", TRUE, TInt),
                         Var("v2", FALSE, TInt)>>, << >>, SelfEqual("v2", TInt)),
              SlotPred(<<Var("v1", FALSE, TInt), Var("v2", FALSE, TInt),
                         Var("v1", TRUE, TInt)>>, << >>, SelfEqual("v1", TInt)) }

SlotPredicates ==
    { SlotPred(vs, << >>, SelfEqual(vs[i].name, vs[i].ty)) :
         vs \in SlotVarLists, i \in 1..MaxVars }
      \cup { SlotPred(vs, << >>, SelfEqual("I::" \o v.name, v.ty)) :
                vs \in SlotVarLists,
                v \in Range(SlotInterfaces[1].predicate_interfaces[1].vars) }
      \cup { SlotPred(vs, <<StateVar("s0", StorageAccess("x", TInt))>>,
                      SelfEqual("s0", TInt)) : vs \in SlotVarLists }
      \cup ShadowPredicates

\* ---- `state y = Foo::storage::addr[3]` ----
\* an interface whose first storage variable addr is a map from int to a
\* primitive type, and the instance Foo of it
AddrInterfaces(value_ty) ==
    <<[name |-> "FooI",
       storage |-> SomeStorage(<<Var("addr", FALSE, TMap(TInt, value_ty)),
                                 Var("u", FALSE, TPair)>>),
       predicate_interfaces |-> << >>]>>

AddrState(value_ty) ==
    StateVar("y", Index(ExternalStorageAccess("Foo", "addr", TMap(TInt, value_ty)),
                        ImmInt(3), value_ty))

AddrPred(value_ty) ==
    [vars |-> PredVars, states |-> <<AddrState(value_ty)>>, storage |-> PredStorage,
     interfaces |-> AddrInterfaces(value_ty),
     interface_instances |-> PredInterfaceInstances,
     predicate_instances |-> << >>, constraints |-> << >>]

AddrPredicates == { AddrPred(value_ty) : value_ty \in {TInt, TBool, TB256} }

\* ---- `constraint __f() == __f()` for an intrinsic __f without arguments ----
\* the names the match on `&name.name[..]` gives an access op to, and the op
AccessOpOf ==
    [name \in {"__mut_keys_len", "__this_address", "__this_set_address",
                "__this_pathway"} |->
        CASE name = "__mut_keys_len" -> "MutKeysLen"
          [] name = "__this_address" -> "ThisAddress"
          [] name = "__this_set_address" -> "ThisContractAddress"
          [] name = "__this_pathway" -> "ThisPathway"]

\* the word-sized and the address-sized intrinsics a contract may call
IntrinsicNames ==
    {"__mut_keys_len", "__this_address", "__this_set_address",
     "__this_contract_address", "__this_pathway"}

IntrinsicTy(name) ==
    IF name \in {"__mut_keys_len", "__this_pathway"} THEN TInt ELSE TB256

IntrinsicConstraints ==
    { Binary("Equal", Intrinsic(name, << >>, IntrinsicTy(name)),
             Intrinsic(name, << >>, IntrinsicTy(name))) : name \in IntrinsicNames }

\* ---- `constraint true;`, `constraint false;`, `constraint 1;` ----
LiteralConstraints ==
    { ImmBool(b) : b \in BOOLEAN } \cup { ImmInt(v) : v \in 0..MaxLit }

Predicates ==
    { Pred(<< >>, <<c>>) : c \in Bool1 \cup Bool2 \cup Bool3 \cup WideConstraints
                                \cup IntrinsicConstraints \cup LiteralConstraints }
      \cup UNION { { Pred(sts, <<c>>) : c \in StateConstraints(sts) } :
                     sts \in StateLists \ {<< >>} }
      \cup { Pred(sts, << >>) : sts \in StateLists }
      \cup SlotPredicates
      \cup AddrPredicates

(***************************************************************************)
(* predicate_to_asm as a state machine, followed by a run of a constraint  *)
(* program on the stack machine.                                           *)
(***************************************************************************)
BuildIdle ==
    /\ plan = [kinds |-> << >>, edges |-> << >>, order |-> << >>]
    /\ built_pkgs = EmptyFn
    /\ order_it = 0
    /\ pc = "idle"
    /\ n = 0
    /\ deps_in = EmptyFn
    /\ program_kind = ""
    /\ compiled = << >>
    /\ lib_i = 0
    /\ fs = EmptyFn
    /\ pkg_err = ""
    /\ log = << >>
    /\ written = << >>

AsmInit ==
    /\ predicate \in Predicates
    /\ s_asm = << >>
    /\ c_asm = << >>
    /\ a_pc = "loop"
    /\ a_i = 0
    /\ has_errors = FALSE
    /\ vm_c = 0
    /\ vm_pc = 0
    /\ stack = << >>
    /\ vals = << >>
    /\ BuildIdle
    /\ ScalIdle
    /\ LibIdle
    /\ SymIdle
    /\ ProgIdle
    /\ ReplIdle
    /\ IterIdle

NumStates == Len(predicate.states)
NumConstraints == Len(predicate.constraints)

\* one iteration of `for (_, state) in pred.states()`
CompileState ==
    /\ a_pc = "loop"
    /\ a_i < NumStates
    /\ \E r \in {compile_state(predicate.states[a_i + 1], predicate)} :
          /\ a_pc' = IF r.st = "panic" THEN "panic" ELSE "loop"
          /\ s_asm' = IF r.st = "ok" THEN Append(s_asm, r.asm) ELSE s_asm
          /\ has_errors' = (has_errors \/ r.st = "err")
    /\ a_i' = a_i + 1
    /\ UNCHANGED <<predicate, c_asm, vm_c, vm_pc, stack, vals>>
    /\ UNCHANGED nonAsmVars

\* AsmBuilder::compile_constraint
compile_constraint(expr, pred) == compile_expr(<< >>, expr, pred)

\* one iteration of `for ConstraintDecl { .. } in &pred.constraints`
CompileConstraint ==
    /\ a_pc = "loop"
    /\ a_i >= NumStates
    /\ a_i < NumStates + NumConstraints
    /\ \E r \in {compile_constraint(predicate.constraints[a_i - NumStates + 1],
                                      predicate)} :
          /\ a_pc' = IF r.st = "panic" THEN "panic" ELSE "loop"
          /\ c_asm' = IF r.st = "ok" THEN Append(c_asm, r.asm) ELSE c_asm
          /\ has_errors' = (has_errors \/ r.st = "err")
    /\ a_i' = a_i + 1
    /\ UNCHANGED <<predicate, s_asm, vm_c, vm_pc, stack, vals>>
    /\ UNCHANGED nonAsmVars

\* the end of predicate_to_asm: Err if the handler has errors, else the
\* CompiledPredicate made of s_asm and c_asm
Finish ==
    /\ a_pc = "loop"
    /\ a_i = NumStates + NumConstraints
    /\ a_pc' = IF has_errors THEN "Err" ELSE "Ok"
    /\ UNCHANGED <<predicate, s_asm, c_asm, a_i, has_errors, vm_c, vm_pc, stack, vals>>
    /\ UNCHANGED nonAsmVars

\* ---- the stack machine that runs a constraint program ----
\* the slots a solution assigns one word to
WordSlots ==
    LET priv == SelectSeq(predicate.vars, LAMBDA v : ~v.is_pub)
    IN { i \in DOMAIN priv : TySize(priv[i].ty) = 1 }

Top(stk, k) == stk[Len(stk) - k]
Drop(stk, k) == SubSeq(stk, 1, Len(stk) - k)
Bool(p) == IF p THEN 1 ELSE 0

VmOk(stk, next) == [st |-> "run", stack |-> stk, pc |-> next]
VmStop(st, stk, at) == [st |-> st, stack |-> stk, pc |-> at]

\* the effect of one op at program counter at; JumpForwardIf takes the
\* condition from the top of the stack and the distance from below it
Exec(op, stk, at, solution) ==
    LET Need(k, r) == IF Len(stk) >= k THEN r ELSE VmStop("fault", stk, at)
        Bin(v) == VmOk(Append(Drop(stk, 2), v), at + 1)
    IN CASE op.op = "Push" -> VmOk(Append(stk, op.arg), at + 1)
         [] op.op = "Pop" -> Need(1, VmOk(Drop(stk, 1), at + 1))
         [] op.op = "Not" ->
              Need(1, VmOk(Append(Drop(stk, 1), Bool(Top(stk, 0) = 0)), at + 1))
         [] op.op = "DecisionVar" ->
              Need(1, IF Top(stk, 0) + 1 \in DOMAIN solution
                      THEN VmOk(Append(Drop(stk, 1), solution[Top(stk, 0) + 1]),
                                at + 1)
                      ELSE VmStop("fault", stk, at))
         [] op.op = "Eq" -> Need(2, Bin(Bool(Top(stk, 1) = Top(stk, 0))))
         [] op.op = "Lt" -> Need(2, Bin(Bool(Top(stk, 1) < Top(stk, 0))))
         [] op.op = "Add" -> Need(2, Bin(Top(stk, 1) + Top(stk, 0)))
         [] op.op = "Sub" -> Need(2, Bin(Top(stk, 1) - Top(stk, 0)))
         [] op.op = "JumpForwardIf" ->
              Need(2, IF Top(stk, 0) = 0
                      THEN VmOk(Drop(stk, 2), at + 1)
                      ELSE IF Top(stk, 1) > 0
                      THEN VmOk(Drop(stk, 2), at + Top(stk, 1))
                      ELSE VmStop("fault", stk, at))
         [] OTHER -> VmStop("unsupported", stk, at)

\* a solution is chosen and the run of one constraint program starts
VmStart ==
    /\ a_pc = "Ok"
    /\ \E c \in DOMAIN c_asm, solution \in [WordSlots -> 0..1] :
          /\ vm_c' = c
          /\ vals' = solution
    /\ a_pc' = "run"
    /\ vm_pc' = 1
    /\ stack' = << >>
    /\ UNCHANGED <<predicate, s_asm, c_asm, a_i, has_errors>>
    /\ UNCHANGED nonAsmVars

\* one op of the running program, or the end of the program
VmStep ==
    /\ a_pc = "run"
    /\ IF vm_pc > Len(c_asm[vm_c])
       THEN a_pc' = "halted" /\ UNCHANGED <<vm_pc, stack>>
       ELSE LET r == Exec(c_asm[vm_c][vm_pc], stack, vm_pc, vals)
            IN a_pc' = r.st /\ stack' = r.stack /\ vm_pc' = r.pc
    /\ UNCHANGED <<predicate, s_asm, c_asm, a_i, has_errors, vm_c, vals>>
    /\ UNCHANGED nonAsmVars

AsmNext == CompileState \/ CompileConstraint \/ Finish \/ VmStart \/ VmStep

SpecAsm == AsmInit /\ [][AsmNext]_vars

(***************************************************************************)
(* Claims about the assembly generator.                                    *)
(***************************************************************************)

\* The calls compile_expr(pre, e) made while compile_expr(asm, expr) runs:
\* the call itself and, operand by operand, the calls for the sub-expressions
\* with the stream as it stands when each of them starts.
RECURSIVE CompileCalls(_, _, _)
RECURSIVE CallsInSequence(_, _, _)
CompileCalls(asm, expr, pred) ==
    {[pre |-> asm, e |-> expr]} \cup
    CASE expr.tag \in {"BinaryOp", "Array", "Tuple"} ->
           CallsInSequence(asm, expr.args, pred)
      [] expr.tag = "UnaryOp" /\ expr.op = "Not" ->
           CompileCalls(asm, expr.args[1], pred)
      [] expr.tag = "UnaryOp" /\ expr.op = "Neg" /\ asm /= << >> ->
           CompileCalls(VecInsert(asm, Len(asm) - 1, Push(0)), expr.args[1], pred)
      [] expr.tag = "Select" /\ expr.val = 0 /\ TySize(expr.args[2].ty) = 1 ->
           CallsInSequence(asm, <<expr.args[3], expr.args[2], expr.args[1]>>, pred)
      [] expr.tag = "Select" /\ expr.val = 0 /\ TySize(expr.args[2].ty) > 1 ->
           CallsInSequence(asm, <<expr.args[3], expr.args[2]>>, pred)
      [] OTHER -> {}

CallsInSequence(asm, exprs, pred) ==
    IF exprs = << >>
    THEN {}
    ELSE CompileCalls(asm, Head(exprs), pred) \cup
         Let(compile_expr(asm, Head(exprs), pred), LAMBDA r :
             IF r.st = "ok" THEN CallsInSequence(r.asm, Tail(exprs), pred) ELSE {})

\* compile_constraint has just run on the last constraint of the predicate
ConstraintsCompiled ==
    /\ a_pc \in {"loop", "panic"}
    /\ NumConstraints > 0
    /\ a_i = NumStates + NumConstraints

\* every compile_expr call made for the constraints of the predicate
AllCompileCalls ==
    UNION { CompileCalls(<< >>, predicate.constraints[i], predicate) :
               i \in DOMAIN predicate.constraints }

LastOps(asm, k) == SubSeq(asm, Len(asm) - k + 1, Len(asm))
EndsWith(asm, ops) == Len(asm) >= Len(ops) /\ LastOps(asm, Len(ops)) = ops

\* `lhs op rhs` compiled onto pre: with L the ops lhs compiles to and R the
\* ops rhs compiles to after it, the stream is pre, Push(c), Push(|R|+2), L,
\* [Not,] JumpForwardIf, Pop, R
ShortCircuitLaw(pre, e, pred) ==
    Let(compile_expr(pre, e.args[1], pred), LAMBDA l :
    Let(compile_expr(l.asm, e.args[2], pred), LAMBDA r :
    Let(compile_expr(pre, e, pred), LAMBDA res :
      (l.st = "ok" /\ r.st = "ok") =>
        /\ res.st = "ok"
        /\ res.asm =
             pre \o <<Push(IF e.op = "LogicalAnd" THEN 0 ELSE 1), Push(r.len + 2)>>
                 \o SubSeq(l.asm, Len(pre) + 1, Len(l.asm))
                 \o (IF e.op = "LogicalAnd" THEN <<Op("Not")>> ELSE << >>)
                 \o <<Op("JumpForwardIf"), Op("Pop")>>
                 \o SubSeq(r.asm, Len(l.asm) + 1, Len(r.asm)))))

\* C5: for every `lhs && rhs` and `lhs || rhs` that compile_expr is called
\* on, whatever the stream holds already and whether or not the operands
\* contain lowered && / ||, the output is the earlier ops unchanged, then
\* Push(0|1), Push(|R|+2), L, [Not,] JumpForwardIf, Pop, R.
CE_C5_ShortCircuitLayout ==
    ConstraintsCompiled =>
      \A call \in AllCompileCalls :
         (call.e.tag = "BinaryOp" /\ call.e.op \in LogicalOps)
            => ShortCircuitLaw(call.pre, call.e, predicate)

\* `-e` compiled onto pre: the stream is pre, Push(0), the ops of e, Sub
NegLaw(pre, e, pred) ==
    Let(compile_expr(Append(pre, Push(0)), e.args[1], pred), LAMBDA inner :
    Let(compile_expr(pre, e, pred), LAMBDA res :
      inner.st = "ok" =>
        /\ res.st = "ok"
        /\ res.asm = Append(inner.asm, Op("Sub"))
        /\ SubSeq(res.asm, 1, Len(pre) + 1) = Append(pre, Push(0))))

\* C7: for every negation `-e` that compile_expr is called on, the output is
\* the earlier ops in their positions, then Push(0), the ops of e, Sub; the
\* compilation succeeds on an empty stream as well.
CE_C7_NegAppends ==
    ConstraintsCompiled =>
      \A call \in AllCompileCalls :
         (call.e.tag = "UnaryOp" /\ call.e.op = "Neg")
            => NegLaw(call.pre, call.e, predicate)

IsPrivateVar(e, pred) ==
    /\ e.tag = "PathByName"
    /\ \E i \in DOMAIN pred.vars : pred.vars[i].name = e.name /\ ~pred.vars[i].is_pub

\* name is the name of a state that no decision variable shadows
NamesState(name, pred) ==
    /\ \E i \in DOMAIN pred.states : pred.states[i].name = name
    /\ \A i \in DOMAIN pred.vars : pred.vars[i].name /= name

IsStateRef(e, pred) ==
    \/ /\ e.tag = "PathByName"
       /\ NamesState(e.name, pred)
    \/ /\ e.tag = "UnaryOp" /\ e.op = "NextState"
       /\ e.args[1].tag = "PathByName"
       /\ NamesState(e.args[1].name, pred)

\* the opcodes that end the compilation of e agree with the width of its type
WidthLaw(pre, e, pred) ==
    Let(compile_expr(pre, e, pred), LAMBDA res :
      res.st = "ok" =>
        CASE IsPrivateVar(e, pred) ->
               IF TySize(e.ty) = 1
               THEN EndsWith(res.asm, <<Op("DecisionVar")>>)
               ELSE EndsWith(res.asm, <<Push(TySize(e.ty)), Op("DecisionVarRange")>>)
          [] IsStateRef(e, pred) ->
               IF StorageSlots(e.ty) = 1
               THEN EndsWith(res.asm, <<Op("State")>>)
               ELSE /\ EndsWith(res.asm, <<Op("StateRange")>>)
                    /\ Len(res.asm) >= 3
                    /\ res.asm[Len(res.asm) - 2] = Push(StorageSlots(e.ty))
          [] e.tag = "BinaryOp" /\ e.op \in {"Equal", "NotEqual"} ->
               EndsWith(res.asm,
                        (IF TySize(e.args[1].ty) = 1
                         THEN <<Op("Eq")>>
                         ELSE <<Push(TySize(e.args[1].ty)), Op("EqRange")>>)
                        \o (IF e.op = "NotEqual" THEN <<Op("Not")>> ELSE << >>))
          [] e.tag = "Select" /\ e.val = 0 ->
               IF TySize(e.args[2].ty) = 1
               THEN EndsWith(res.asm, <<Op("Select")>>)
               ELSE /\ EndsWith(res.asm, <<Op("SelectRange")>>)
                    /\ \E i \in DOMAIN res.asm :
                          i > Len(pre) /\ res.asm[i] = Push(TySize(e.args[2].ty))
          [] OTHER -> TRUE)

\* C8: every read and comparison in a constraint program uses the opcode
\* that agrees with the width of the type entry: DecisionVar, State, Eq,
\* Select for one word; a push of the width w and DecisionVarRange,
\* StateRange, EqRange, SelectRange for w > 1, for `==` and `!=` alike.
CE_C8_WidthAgreement ==
    ConstraintsCompiled =>
      \A call \in AllCompileCalls : WidthLaw(call.pre, call.e, predicate)

\* the constraint whose program the VM runs
RunConstraint == predicate.constraints[vm_c]

\* a run of the VM on the program of a constraint `lhs && rhs` / `lhs || rhs`
RunsShortCircuit ==
    /\ a_pc \in {"run", "halted", "fault"}
    /\ RunConstraint.tag = "BinaryOp"
    /\ RunConstraint.op \in LogicalOps

\* where compile_value_expr put the JumpForwardIf of the outermost operator
\* of the running program (1-based): after Push, Push, the lhs ops and, for
\* &&, the Not
JumpIndex ==
    compile_expr(<< >>, RunConstraint.args[1], predicate).len
      + (IF RunConstraint.op = "LogicalAnd" THEN 4 ELSE 3)

\* C6: when the JumpForwardIf of a && / || is executed, the distance below
\* the condition on the stack leads to the op right after the operator's
\* right operand (here the end of the program: the operator is the
\* outermost one of its constraint, with operators nested in its operands),
\* and whichever way the jump goes the operator leaves exactly one word.
CE_C6_JumpLandsAfterRhs ==
    RunsShortCircuit =>
      /\ a_pc /= "fault"
      /\ (a_pc = "run" /\ vm_pc <= Len(c_asm[vm_c])
            /\ c_asm[vm_c][vm_pc].op = "JumpForwardIf" /\ vm_pc = JumpIndex)
           => /\ Len(stack) >= 2
              /\ vm_pc + Top(stack, 1) = Len(c_asm[vm_c]) + 1
      /\ a_pc = "halted" => Len(stack) = 1

\* predicate_to_asm returned Ok(CompiledPredicate)
ReturnedOk == a_pc \in {"Ok", "run", "halted", "fault", "unsupported"}

\* the words a straight-line op sequence leaves on an empty stack
RECURSIVE RunOps(_, _)
RunOps(ops, stk) ==
    IF ops = << >>
    THEN stk
    ELSE Let(Exec(Head(ops), stk, 1, << >>), LAMBDA r : RunOps(Tail(ops), r.stack))

\* the storage a state expression reads belongs to another contract
RECURSIVE IsExternal(_)
IsExternal(expr) ==
    CASE expr.tag = "ExternalStorageAccess" -> TRUE
      [] expr.tag = "IntrinsicCall" -> expr.name \in StorageGetExternNames
      [] expr.tag \in {"Index", "TupleFieldAccess"} -> IsExternal(expr.args[1])
      [] OTHER -> FALSE

\* prog is the state-read program of state: its key ops, then Push(slots),
\* AllocSlots, Push(key_len), Push(slots), Push(0), KeyRange[Extern], Halt
StateReadLaw(prog, state, pred) ==
    Let(compile_state_key(<< >>, state.expr, pred), LAMBDA key :
      /\ key.st = "ok"
      /\ prog = key.asm \o
                <<Push(StorageSlots(state.ty)), Op("AllocSlots"), Push(KeyLen(key)),
                  Push(StorageSlots(state.ty)), Push(0),
                  Op(IF IsExternal(state.expr) THEN "KeyRangeExtern" ELSE "KeyRange"),
                  Op("Halt")>>
      /\ Len(RunOps(key.asm, << >>)) =
            KeyLen(key) + (IF IsExternal(state.expr) THEN TySize(TB256) ELSE 0)
      /\ Cardinality({j \in DOMAIN prog : prog[j] = Op("Halt")}) = 1
      /\ state.expr = StorageAccess("x", TInt) =>
            prog = <<Push(0), Push(1), Op("AllocSlots"), Push(1), Push(1), Push(0),
                     Op("KeyRange"), Op("Halt")>>)

RECURSIVE SlotIndex(_, _)
SlotIndex(pred, i) ==
    IF i = 1 THEN 0
    ELSE SlotIndex(pred, i - 1) + StorageSlots(pred.states[i - 1].ty)

StateOf(ref) == IF ref.tag = "UnaryOp" THEN ref.args[1].name ELSE ref.name
StatePos(pred, ref) ==
    CHOOSE i \in DOMAIN pred.states : pred.states[i].name = StateOf(ref)

\* the ops a reference `s` or `s'` must compile to
RefOps(pred, ref) ==
    LET i == StatePos(pred, ref)
        selector == IF ref.tag = "UnaryOp" THEN 1 ELSE 0
        slots == StorageSlots(pred.states[i].ty)
    IN <<Push(SlotIndex(pred, i))>> \o
       (IF slots = 1
        THEN <<Push(selector), Op("State")>>
        ELSE <<Push(slots), Push(selector), Op("StateRange")>>)

SlotRange(pred, i) ==
    SlotIndex(pred, i) .. (SlotIndex(pred, i) + StorageSlots(pred.states[i].ty) - 1)

\* a constraint comparing two state references has been compiled
StateConstraintCompiled ==
    /\ c_asm /= << >>
    /\ predicate.constraints[1].tag = "BinaryOp"
    /\ IsStateRef(predicate.constraints[1].args[1], predicate)
    /\ IsStateRef(predicate.constraints[1].args[2], predicate)

\* C10: a reference to a state pushes the sum of the storage_slots of the
\* states declared before it, so that the slot ranges of the states are
\* dense from 0 and disjoint; then the selector 0 for `s`, 1 for `s'`, and
\* State for a one-slot type, or Push(slots), the selector and StateRange.
T_C10_StateSlots ==
    StateConstraintCompiled =>
      LET c == predicate.constraints[1]
          l == RefOps(predicate, c.args[1])
          r == RefOps(predicate, c.args[2])
      IN /\ SubSeq(c_asm[1], 1, Len(l) + Len(r)) = l \o r
         /\ \A i, j \in DOMAIN predicate.states :
               i /= j => SlotRange(predicate, i) \cap SlotRange(predicate, j) = {}
         /\ UNION { SlotRange(predicate, i) : i \in DOMAIN predicate.states }
               = 0 .. (SeqSum([i \in DOMAIN predicate.states |->
                                  StorageSlots(predicate.states[i].ty)]) - 1)

\* C10 witness: the next-state form of a one-slot state declared after a
\* two-slot state was compiled to Push(2), Push(1), State.
W_C10_SecondStateNext ==
    /\ StateConstraintCompiled
    /\ NumStates = 2
    /\ StorageSlots(predicate.states[1].ty) = 2
    /\ SubSeq(c_asm[1], 1, 3) = <<Push(2), Push(1), Op("State")>>

(***************************************************************************)
(* SCALARIZATION (yurtc/src/intermediate/transform/scalarize.rs)           *)
(***************************************************************************)
ArrayLen == 2             \* the length of the arrays an intent declares
LoopCheckLimit == 10000   \* iterate! gives up when loop_check exceeds it

\* Option::None for a size, a key or an index
None == -1

\* ---- Type ----
TypeNode(k, el, range, size, fields) ==
    [k |-> k, el |-> el, range |-> range, size |-> size, fields |-> fields]
TypePrimitive(kind) == TypeNode(kind, << >>, None, None, << >>)
\* Type::Array { ty, range, size }: range is the key of the range expression
TypeArray(ty, range, size) == TypeNode("array", <<ty>>, range, size, << >>)
\* Type::Tuple { fields }: a field is (Option<name>, type), "" for no name
TupleField(name, ty) == [name |-> name, ty |-> ty]
TypeTuple(fields) == TypeNode("tuple", << >>, None, None, fields)

is_array(ty) == ty.k = "array"
is_tuple(ty) == ty.k = "tuple"
is_bool(ty) == ty.k = "bool"
is_real(ty) == ty.k = "real"
\* Some(..) exactly for an array type
get_array_params(ty) == is_array(ty)

\* ---- Expr ----
ExprNode(tag, op, name, key, a, b, val) ==
    [tag |-> tag, op |-> op, name |-> name, key |-> key, a |-> a, b |-> b, val |-> val]
\* Immediate::Int(v), Immediate::Bool(v) (v is 0 or 1), ...: the kind is in op
ExprImmediateOf(kind, v) == ExprNode("Immediate", kind, "", None, None, None, v)
ExprImmediate(v) == ExprImmediateOf("Int", v)
ExprUnaryOp(op, expr) == ExprNode("UnaryOp", op, "", None, expr, None, 0)
ExprPathByName(path) == ExprNode("PathByName", "", path, None, None, None, 0)
ExprPathByKey(var_key) == ExprNode("PathByKey", "", "", var_key, None, None, 0)
ExprArrayElementAccess(array, index) ==
    ExprNode("ArrayElementAccess", "", "", None, array, index, 0)
TupleAccessIndex(i) == [kind |-> "Index", idx |-> i, name |-> ""]
TupleAccessName(name) == [kind |-> "Name", idx |-> 0, name |-> name]
ExprTupleFieldAccess(tuple, field) ==
    ExprNode("TupleFieldAccess", field.kind, field.name, None, tuple, None, field.idx)
ExprBinaryOp(op, lhs, rhs) == ExprNode("BinaryOp", op, "", None, lhs, rhs, 0)

\* ---- the slot maps of IntermediateIntent ----
\* Keys are handed out in increasing order and iteration is in key order.
FnDel(f, k) == [x \in DOMAIN f \ {k} |-> f[x]]

RECURSIVE KeysInOrder(_)
KeysInOrder(S) ==
    IF S = {} THEN << >>
    ELSE Let(CHOOSE x \in S : \A y \in S : x <= y,
             LAMBDA m : <<m>> \o KeysInOrder(S \ {m}))

InsertVar(ii, name, ty) ==
    [ii EXCEPT !.vars = FnPut(@, ii.next_var, name),
               !.var_types = FnPut(@, ii.next_var, ty),
               !.next_var = @ + 1]
RemoveVar(ii, key) ==
    [ii EXCEPT !.vars = FnDel(@, key), !.var_types = FnDel(@, key)]
InsertExpr(ii, e) ==
    [ii EXCEPT !.exprs = FnPut(@, ii.next_expr, e), !.next_expr = @ + 1]
InsertExprType(ii, key, ty) == [ii EXCEPT !.expr_types = FnPut(@, key, ty)]
\* exprs.insert(e) followed by expr_types.insert(key, ty)
InsertTyped(ii, e, ty) == InsertExprType(InsertExpr(ii, e), ii.next_expr, ty)
RemoveExpr(ii, key) ==
    [ii EXCEPT !.exprs = FnDel(@, key), !.expr_types = FnDel(@, key)]

\* IntermediateIntent::replace_exprs: every reference to old_expr, in the
\* expressions and in the constraints, becomes a reference to new_expr
replace_exprs(ii, old_expr, new_expr) ==
    [ii EXCEPT
       !.exprs = [k \in DOMAIN ii.exprs |->
                    [ii.exprs[k] EXCEPT
                       !.a = IF @ = old_expr THEN new_expr ELSE @,
                       !.b = IF @ = old_expr THEN new_expr ELSE @]],
       !.constraints = [i \in DOMAIN ii.constraints |->
                          IF ii.constraints[i] = old_expr THEN new_expr
                          ELSE ii.constraints[i]]]

\* Expr::evaluate with no known values: an immediate evaluates to itself,
\* the negation of an integer constant to its negative, a path does not
\* evaluate
RECURSIVE evaluate(_, _)
evaluate(ii, key) ==
    CASE ii.exprs[key].tag = "Immediate" ->
            [ok |-> TRUE, kind |-> ii.exprs[key].op, val |-> ii.exprs[key].val]
      [] ii.exprs[key].tag = "UnaryOp" /\ ii.exprs[key].op = "Neg" ->
            Let(evaluate(ii, ii.exprs[key].a), LAMBDA v :
                IF v.ok /\ v.kind = "Int"
                THEN [v EXCEPT !.val = 0 - v.val]
                ELSE [ok |-> FALSE, kind |-> "", val |-> 0])
      [] OTHER -> [ok |-> FALSE, kind |-> "", val |-> 0]

\* ---- results: Result<bool, CompileError> together with the intent ----
ScalRes(st, ii, modif, old, err) ==
    [st |-> st, ii |-> ii, modified |-> modif, old |-> old, err |-> err]
ScalOk(ii, modif) == ScalRes("ok", ii, modif, << >>, "")
ScalErr(ii, err) == ScalRes("err", ii, FALSE, << >>, err)
ScalPanic(ii) == ScalRes("panic", ii, FALSE, << >>, "")

\* ---- fix_array_sizes ----
TyOk(ty) == [st |-> "ok", ty |-> ty, err |-> ""]
TyErr(err) == [st |-> "err", ty |-> TypePrimitive("int"), err |-> err]

RECURSIVE fix_array_size(_, _, _)
fix_array_size(ii, el_ty, range_expr_key) ==
    IF ~(is_array(el_ty) \/ is_int(el_ty) \/ is_real(el_ty) \/ is_bool(el_ty))
    THEN TyErr("Internal")
    ELSE Let(IF is_array(el_ty) /\ el_ty.size = None
             THEN fix_array_size(ii, el_ty.el[1], el_ty.range)
             ELSE TyOk(el_ty),
          LAMBDA inner :
            IF inner.st /= "ok" THEN inner
            ELSE IF ii.exprs[range_expr_key].tag = "PathByName"
            THEN IF ii.exprs[range_expr_key].name \in DOMAIN ii.enums
                 THEN TyOk(TypeArray(inner.ty, range_expr_key,
                                     ii.enums[ii.exprs[range_expr_key].name]))
                 ELSE TyErr("NonConstArrayLength")
            ELSE Let(evaluate(ii, range_expr_key), LAMBDA v :
                   IF v.ok /\ v.kind = "Int" /\ v.val > 0
                   THEN TyOk(TypeArray(inner.ty, range_expr_key, v.val))
                   ELSE IF v.ok THEN TyErr("InvalidConstArrayLength")
                   ELSE TyErr("NonConstArrayLength")))

\* the for loop of update_types!: the types fixed so far stay in the map
\* when a later candidate fails
RECURSIVE FixCandidates(_, _, _)
FixCandidates(ii, candidates, types_map) ==
    IF candidates = << >>
    THEN [st |-> "ok", map |-> types_map, err |-> ""]
    ELSE Let(fix_array_size(ii, types_map[Head(candidates)].el[1],
                            types_map[Head(candidates)].range),
          LAMBDA fixed :
            IF fixed.st /= "ok"
            THEN [st |-> "err", map |-> types_map, err |-> fixed.err]
            ELSE FixCandidates(ii, Tail(candidates),
                               FnPut(types_map, Head(candidates), fixed.ty)))

update_types(ii, keys, types_map) ==
    FixCandidates(ii,
                  KeysInOrder({k \in keys : /\ k \in DOMAIN types_map
                                            /\ get_array_params(types_map[k])
                                            /\ types_map[k].size = None}),
                  types_map)

fix_array_sizes(ii) ==
    Let(update_types(ii, DOMAIN ii.vars, ii.var_types), LAMBDA v :
      IF v.st /= "ok"
      THEN ScalErr([ii EXCEPT !.var_types = v.map], v.err)
      ELSE Let(update_types(ii, DOMAIN ii.exprs, ii.expr_types), LAMBDA e :
             IF e.st /= "ok"
             THEN ScalErr([ii EXCEPT !.var_types = v.map, !.expr_types = e.map], e.err)
             ELSE ScalOk([ii EXCEPT !.var_types = v.map, !.expr_types = e.map], FALSE)))

\* ---- lower_array_compares ----
\* the chain acc && next && ... over the comparison keys still to be joined
RECURSIVE AndChain(_, _, _)
AndChain(ii, acc, rest) ==
    IF rest = << >>
    THEN [ii |-> ii, key |-> acc]
    ELSE AndChain(InsertTyped(ii, ExprBinaryOp("LogicalAnd", acc, Head(rest)),
                              TypePrimitive("bool")),
                  ii.next_expr, Tail(rest))

\* replace_exprs(old, new) and the removal of the old expression
ReplaceAndRemove(ii, old_expr, new_expr) ==
    RemoveExpr(replace_exprs(ii, old_expr, new_expr), old_expr)

IsArrayCompare(ii, k) ==
    /\ ii.exprs[k].tag = "BinaryOp"
    /\ ii.exprs[k].op \in {"Equal", "NotEqual"}
    /\ ii.exprs[k].a \in DOMAIN ii.expr_types
    /\ get_array_params(ii.expr_types[ii.exprs[k].a])
    /\ ii.exprs[k].b \in DOMAIN ii.expr_types
    /\ get_array_params(ii.expr_types[ii.exprs[k].b])

\* the details saved for one comparison
ArrayCompareOp(ii, k) ==
    [key |-> k, op |-> ii.exprs[k].op,
     lhs |-> ii.exprs[k].a, lhs_size |-> ii.expr_types[ii.exprs[k].a].size,
     rhs |-> ii.exprs[k].b, rhs_size |-> ii.expr_types[ii.exprs[k].b].size,
     el_ty |-> ii.expr_types[ii.exprs[k].a].el[1]]

\* ArrayElementCompare with the left array on both sides
ArrayElementCompare_LhsTwice(ii, o, idx) ==
    InsertExpr(
      InsertTyped(
        InsertTyped(
          InsertTyped(ii, ExprImmediate(idx), TypePrimitive("int")),
          ExprArrayElementAccess(o.lhs, ii.next_expr), o.el_ty),
        ExprArrayElementAccess(o.lhs, ii.next_expr), o.el_ty),
      ExprBinaryOp(o.op, ii.next_expr + 1, ii.next_expr + 2))

\* the index immediate, the two element accesses and their comparison
ArrayElementCompare(ii, o, idx) ==
    InsertExpr(
      InsertTyped(
        InsertTyped(
          InsertTyped(ii, ExprImmediate(idx), TypePrimitive("int")),
          ExprArrayElementAccess(o.lhs, ii.next_expr), o.el_ty),
        ExprArrayElementAccess(o.rhs, ii.next_expr), o.el_ty),
      ExprBinaryOp(o.op, ii.next_expr + 1, ii.next_expr + 2))

RECURSIVE ArrayElementCompares(_, _, _)
ArrayElementCompares(ii, o, idx) ==
    IF idx = o.lhs_size THEN ii
    ELSE ArrayElementCompares(ArrayElementCompare(ii, o, idx), o, idx + 1)

LowerArrayCompare(ii, o) ==
    Let(AndChain(ArrayElementCompares(ii, o, 0), ii.next_expr + 3,
                 [i \in 1..(o.lhs_size - 1) |-> ii.next_expr + 4 * i + 3]),
        LAMBDA chain :
          ReplaceAndRemove(InsertExprType(chain.ii, chain.key, TypePrimitive("bool")),
                           o.key, chain.key))

\* BinaryOp::to_string of the two comparison operators
OpToString(op) == IF op = "Equal" THEN "==" ELSE "!="

\* CompileError::MismatchedArrayComparisonSizes { op, lhs_size, rhs_size }
MismatchedArrayComparisonSizes(op, lhs_size, rhs_size) ==
    "MismatchedArrayComparisonSizes { op: " \o op \o ", lhs_size: "
      \o ToString(lhs_size) \o ", rhs_size: " \o ToString(rhs_size) \o " }"

RECURSIVE LowerArrayOps(_, _)
LowerArrayOps(ii, ops) ==
    IF ops = << >> THEN ScalOk(ii, TRUE)
    ELSE IF Head(ops).lhs_size = None \/ Head(ops).rhs_size = None
    THEN ScalErr(ii, "Internal")
    ELSE IF Head(ops).lhs_size /= Head(ops).rhs_size
    THEN ScalErr(ii, MismatchedArrayComparisonSizes(OpToString(Head(ops).op),
                                                    Head(ops).lhs_size,
                                                    Head(ops).rhs_size))
    ELSE LowerArrayOps(LowerArrayCompare(ii, Head(ops)), Tail(ops))

lower_array_compares(ii) ==
    Let(KeysInOrder({k \in DOMAIN ii.exprs : IsArrayCompare(ii, k)}), LAMBDA keys :
      IF keys = << >> THEN ScalOk(ii, FALSE)
      ELSE LowerArrayOps(ii, [i \in DOMAIN keys |-> ArrayCompareOp(ii, keys[i])]))

\* ---- scalarize_array ----
IsAccessOf(ii, k, tag, var_name, var_key) ==
    /\ ii.exprs[k].tag = tag
    /\ \/ /\ ii.exprs[ii.exprs[k].a].tag = "PathByName"
          /\ ii.exprs[ii.exprs[k].a].name = var_name
       \/ /\ ii.exprs[ii.exprs[k].a].tag = "PathByKey"
          /\ ii.exprs[ii.exprs[k].a].key = var_key

\* the for loop of scalarize_array_access over the gathered accesses
\* <<access key, index key>>; new_keys are the keys of the element variables
RECURSIVE ReplaceArrayAccesses(_, _, _, _, _)
\* ReplaceArrayAccesses reporting an index out of range as an invalid constant
ReplaceArrayAccesses_WrongError(ii, accesses, array_size, el_ty, new_keys) ==
    IF accesses = << >> THEN ScalOk(ii, TRUE)
    ELSE Let(evaluate(ii, Head(accesses)[2]), LAMBDA index_value :
           IF ~index_value.ok THEN ScalErr(ii, "NonConstArrayIndex")
           ELSE IF index_value.kind /= "Int"
           THEN ScalErr(ii, "InvalidConstArrayIndex")
           ELSE IF index_value.val < 0 \/ index_value.val >= array_size
           THEN ScalErr(ii, "InvalidConstArrayIndex")
           ELSE ReplaceArrayAccesses(
                  ReplaceAndRemove(
                    InsertTyped(ii, ExprPathByKey(new_keys[index_value.val + 1]), el_ty),
                    Head(accesses)[1], ii.next_expr),
                  Tail(accesses), array_size, el_ty, new_keys))

ReplaceArrayAccesses(ii, accesses, array_size, el_ty, new_keys) ==
    IF accesses = << >> THEN ScalOk(ii, TRUE)
    ELSE Let(evaluate(ii, Head(accesses)[2]), LAMBDA index_value :
           IF ~index_value.ok THEN ScalErr(ii, "NonConstArrayIndex")
           ELSE IF index_value.kind /= "Int"
           THEN ScalErr(ii, "InvalidConstArrayIndex")
           ELSE IF index_value.val < 0 \/ index_value.val >= array_size
           THEN ScalErr(ii, "ArrayIndexOutOfBounds")
           ELSE ReplaceArrayAccesses(
                  ReplaceAndRemove(
                    InsertTyped(ii, ExprPathByKey(new_keys[index_value.val + 1]), el_ty),
                    Head(accesses)[1], ii.next_expr),
                  Tail(accesses), array_size, el_ty, new_keys))

scalarize_array_access(ii, array_var_name, array_var_key, array_size, el_ty, new_keys) ==
    Let(KeysInOrder({k \in DOMAIN ii.exprs :
                       IsAccessOf(ii, k, "ArrayElementAccess", array_var_name, array_var_key)}),
        LAMBDA keys :
          ReplaceArrayAccesses(ii, [i \in DOMAIN keys |-> <<keys[i], ii.exprs[keys[i]].b>>],
                               array_size, el_ty, new_keys))

\* the element variables `name[0]` .. `name[n-1]`
RECURSIVE InsertElementVars(_, _, _, _, _)
InsertElementVars(ii, array_name, el_ty, idx, array_size) ==
    IF idx = array_size THEN ii
    ELSE InsertElementVars(
           InsertVar(ii, array_name \o "[" \o ToString(idx) \o "]", el_ty),
           array_name, el_ty, idx + 1, array_size)

\* the array variables find_map chooses from: every variable of array type
ArrayVars_FlatOnly(ii) ==
    { k \in DOMAIN ii.var_types :
         get_array_params(ii.var_types[k]) /\ ~is_array(ii.var_types[k].el[1]) }

ArrayVars(ii) == { k \in DOMAIN ii.var_types : get_array_params(ii.var_types[k]) }

scalarize_array_var(ii, array_var_key) ==
    IF ii.var_types[array_var_key].size = None \/ array_var_key \notin DOMAIN ii.vars
    THEN ScalErr(ii, "Internal")
    ELSE Let(scalarize_array_access(
               InsertElementVars(ii, ii.vars[array_var_key],
                                 ii.var_types[array_var_key].el[1], 0,
                                 ii.var_types[array_var_key].size),
               ii.vars[array_var_key], array_var_key,
               ii.var_types[array_var_key].size,
               ii.var_types[array_var_key].el[1],
               [i \in 1..ii.var_types[array_var_key].size |-> ii.next_var + i - 1]),
          LAMBDA r :
            IF r.st /= "ok" THEN r ELSE ScalOk(RemoveVar(r.ii, array_var_key), TRUE))

scalarize_array(ii) ==
    IF ArrayVars(ii) = {} THEN ScalOk(ii, FALSE)
    ELSE scalarize_array_var(ii, Head(KeysInOrder(ArrayVars(ii))))

\* ---- lower_tuple_compares ----
IsTupleCompare(ii, k) ==
    /\ ii.exprs[k].tag = "BinaryOp"
    /\ ii.exprs[k].op \in {"Equal", "NotEqual"}
    /\ ii.exprs[k].a \in DOMAIN ii.expr_types
    /\ is_tuple(ii.expr_types[ii.exprs[k].a])

\* TupleAccess::Name(name) for a named field, TupleAccess::Index(idx) otherwise
FieldAccessOf(fields, field_idx) ==
    IF fields[field_idx + 1].name /= ""
    THEN TupleAccessName(fields[field_idx + 1].name)
    ELSE TupleAccessIndex(field_idx)

AllNamed(fields) == \A i \in DOMAIN fields : fields[i].name /= ""

\* the two field accesses and their comparison
TupleFieldCompare(ii, o, lhs_fields, rhs_fields, field_idx) ==
    InsertTyped(
      InsertTyped(
        InsertTyped(ii,
          ExprTupleFieldAccess(o.lhs, FieldAccessOf(lhs_fields, field_idx)),
          lhs_fields[field_idx + 1].ty),
        ExprTupleFieldAccess(o.rhs,
          IF AllNamed(lhs_fields) /\ AllNamed(rhs_fields)
          THEN FieldAccessOf(lhs_fields, field_idx)
          ELSE FieldAccessOf(rhs_fields, field_idx)),
        lhs_fields[field_idx + 1].ty),
      ExprBinaryOp(o.op, ii.next_expr, ii.next_expr + 1),
      TypePrimitive("bool"))

RECURSIVE TupleFieldCompares(_, _, _, _, _)
TupleFieldCompares(ii, o, lhs_fields, rhs_fields, field_idx) ==
    IF field_idx = Len(lhs_fields) THEN ii
    ELSE TupleFieldCompares(TupleFieldCompare(ii, o, lhs_fields, rhs_fields, field_idx),
                            o, lhs_fields, rhs_fields, field_idx + 1)

LowerTupleCompare(ii, o) ==
    Let(AndChain(TupleFieldCompares(ii, o, ii.expr_types[o.lhs].fields,
                                    ii.expr_types[o.rhs].fields, 0),
                 ii.next_expr + 2,
                 [i \in 1..(Len(ii.expr_types[o.lhs].fields) - 1) |->
                     ii.next_expr + 3 * i + 2]),
        LAMBDA chain : ReplaceAndRemove(chain.ii, o.key, chain.key))

RECURSIVE LowerTupleOps(_, _)
LowerTupleOps(ii, ops) ==
    IF ops = << >> THEN ScalOk(ii, TRUE)
    ELSE LowerTupleOps(LowerTupleCompare(ii, Head(ops)), Tail(ops))

lower_tuple_compares(ii) ==
    Let(KeysInOrder({k \in DOMAIN ii.exprs : IsTupleCompare(ii, k)}), LAMBDA keys :
      IF \E i \in DOMAIN keys :
            \/ ii.exprs[keys[i]].b \notin DOMAIN ii.expr_types
            \/ ~is_tuple(ii.expr_types[ii.exprs[keys[i]].b])
      THEN ScalPanic(ii)
      ELSE IF keys = << >> THEN ScalOk(ii, FALSE)
      ELSE LowerTupleOps(ii, [i \in DOMAIN keys |->
                                [key |-> keys[i], op |-> ii.exprs[keys[i]].op,
                                 lhs |-> ii.exprs[keys[i]].a,
                                 rhs |-> ii.exprs[keys[i]].b]]))

\* the tuple variables gathered without a look at old_tuple_vars
TupleVarsToSplit_Resplit(ii, old_vars) ==
    KeysInOrder({k \in DOMAIN ii.vars :
                   /\ k \in DOMAIN ii.var_types
                   /\ is_tuple(ii.var_types[k])})

\* ---- split_tuple_vars ----
\* the tuple variables not split yet, in key order
TupleVarsToSplit(ii, old_vars) ==
    KeysInOrder({k \in DOMAIN ii.vars :
                   /\ \A i \in DOMAIN old_vars : old_vars[i] /= k
                   /\ k \in DOMAIN ii.var_types
                   /\ is_tuple(ii.var_types[k])})

\* new_vars: for every field of every tuple variable the numeric name
\* `name.idx`, the symbolic name `name.field` ("" for none) and the type
RECURSIVE NewVarsOf(_, _)
NewVarsOf(ii, keys) ==
    IF keys = << >> THEN << >>
    ELSE [i \in DOMAIN ii.var_types[Head(keys)].fields |->
            [idx_name |-> ii.vars[Head(keys)] \o "." \o ToString(i - 1),
             sym_name |-> IF ii.var_types[Head(keys)].fields[i].name = "" THEN ""
                          ELSE ii.vars[Head(keys)] \o "."
                                 \o ii.var_types[Head(keys)].fields[i].name,
             ty |-> ii.var_types[Head(keys)].fields[i].ty]]
         \o NewVarsOf(ii, Tail(keys))

\* the variables added for new_vars, the symbolic name preferred
RECURSIVE InsertFieldVars(_, _)
InsertFieldVars(ii, new_vars) ==
    IF new_vars = << >> THEN ii
    ELSE InsertFieldVars(
           InsertVar(ii, IF Head(new_vars).sym_name /= "" THEN Head(new_vars).sym_name
                         ELSE Head(new_vars).idx_name,
                     Head(new_vars).ty),
           Tail(new_vars))

\* new_tuple_vars: both names of a new variable lead to (key, type); first
\* is the key of the first new variable
RECURSIVE NewTupleVars(_, _, _)
NewTupleVars(new_vars, key, map) ==
    IF new_vars = << >> THEN map
    ELSE NewTupleVars(Tail(new_vars), key + 1,
           FnPut(IF Head(new_vars).sym_name /= ""
                 THEN FnPut(map, Head(new_vars).sym_name,
                            [key |-> key, ty |-> Head(new_vars).ty])
                 ELSE map,
                 Head(new_vars).idx_name, [key |-> key, ty |-> Head(new_vars).ty]))

\* the name after the dot of a tuple access
AccessFieldName(e) == IF e.op = "Index" THEN ToString(e.val) ELSE e.name

\* the name of the variable a tuple access is made on, "" when its base is
\* no path
AccessTupleName(ii, k) ==
    IF ii.exprs[ii.exprs[k].a].tag = "PathByKey"
    THEN ii.vars[ii.exprs[ii.exprs[k].a].key]
    ELSE IF ii.exprs[ii.exprs[k].a].tag = "PathByName"
    THEN ii.exprs[ii.exprs[k].a].name
    ELSE ""

IsPathAccess(ii, k) ==
    /\ ii.exprs[k].tag = "TupleFieldAccess"
    /\ ii.exprs[ii.exprs[k].a].tag \in {"PathByKey", "PathByName"}

\* the for loop over new_accesses = <<old expr key, [key, ty] of the new var>>
RECURSIVE ReplaceTupleAccesses(_, _)
ReplaceTupleAccesses(ii, new_accesses) ==
    IF new_accesses = << >> THEN ii
    ELSE ReplaceTupleAccesses(
           ReplaceAndRemove(
             InsertTyped(ii, ExprPathByKey(Head(new_accesses)[2].key),
                         Head(new_accesses)[2].ty),
             Head(new_accesses)[1], ii.next_expr),
           Tail(new_accesses))

SplitRes(ii, modif, old_vars) == ScalRes("ok", ii, modif, old_vars, "")

\* the accesses into the new variables are found and replaced; split is the
\* intent with the new variables added
SplitAccesses(split, new_tuple_vars, old_vars) ==
    IF \E k \in DOMAIN split.exprs :
          /\ IsPathAccess(split, k)
          /\ split.exprs[split.exprs[k].a].tag = "PathByKey"
          /\ split.exprs[split.exprs[k].a].key \notin DOMAIN split.vars
    THEN ScalPanic(split)
    ELSE Let(KeysInOrder({k \in DOMAIN split.exprs :
                            /\ IsPathAccess(split, k)
                            /\ (AccessTupleName(split, k) \o "." \o
                                  AccessFieldName(split.exprs[k]))
                                 \in DOMAIN new_tuple_vars}),
          LAMBDA keys :
            SplitRes(ReplaceTupleAccesses(split,
                       [i \in DOMAIN keys |->
                          <<keys[i],
                            new_tuple_vars[AccessTupleName(split, keys[i]) \o "." \o
                                             AccessFieldName(split.exprs[keys[i]])]>>]),
                     TRUE, old_vars))

split_tuple_vars(ii, old_vars) ==
    IF \E k \in DOMAIN ii.vars :
          (\A i \in DOMAIN old_vars : old_vars[i] /= k) /\ k \notin DOMAIN ii.var_types
    THEN ScalErr(ii, "Internal")
    ELSE Let(TupleVarsToSplit(ii, old_vars), LAMBDA keys :
           Let(NewVarsOf(ii, keys), LAMBDA new_vars :
             IF new_vars = << >> THEN SplitRes(ii, FALSE, old_vars \o keys)
             ELSE SplitAccesses(InsertFieldVars(ii, new_vars),
                                NewTupleVars(new_vars, ii.next_var, EmptyFn),
                                old_vars \o keys)))

\* the for loop of scalarize_tuples that removes the split variables
RECURSIVE RemoveVars(_, _)
RemoveVars(ii, keys) ==
    IF keys = << >> THEN ii ELSE RemoveVars(RemoveVar(ii, Head(keys)), Tail(keys))

\* ---- the intents handed to scalarize ----
\* A type-checked expression as a tree: the node, its type, its operands.
Tree(e, ty, kids) == [e |-> e, ty |-> ty, kids |-> kids]
PathT(name, ty) == Tree(ExprPathByName(name), ty, << >>)
ImmT(v) == Tree(ExprImmediate(v), TypePrimitive("int"), << >>)
BoolT(b) == Tree(ExprImmediateOf("Bool", IF b THEN 1 ELSE 0), TypePrimitive("bool"), << >>)
NegT(tree) == Tree(ExprUnaryOp("Neg", None), tree.ty, <<tree>>)
IndexT(array, index) ==
    Tree(ExprArrayElementAccess(None, None), array.ty.el[1], <<array, index>>)
FieldByIndex(tuple, idx) ==
    Tree(ExprTupleFieldAccess(None, TupleAccessIndex(idx)),
         tuple.ty.fields[idx + 1].ty, <<tuple>>)
FieldByName(tuple, name) ==
    Tree(ExprTupleFieldAccess(None, TupleAccessName(name)),
         (CHOOSE f \in Range(tuple.ty.fields) : f.name = name).ty, <<tuple>>)
BinT(op, lhs, rhs) == Tree(ExprBinaryOp(op, None, None), TypePrimitive("bool"), <<lhs, rhs>>)

\* the expressions of a tree enter the table operands first
RECURSIVE InsertTree(_, _)
InsertTree(ii, tree) ==
    IF tree.kids = << >>
    THEN [ii |-> InsertTyped(ii, tree.e, tree.ty), key |-> ii.next_expr]
    ELSE Let(InsertTree(ii, tree.kids[1]), LAMBDA l :
           IF Len(tree.kids) = 1
           THEN [ii |-> InsertTyped(l.ii, [tree.e EXCEPT !.a = l.key], tree.ty),
                 key |-> l.ii.next_expr]
           ELSE Let(InsertTree(l.ii, tree.kids[2]), LAMBDA r :
                  [ii |-> InsertTyped(r.ii, [tree.e EXCEPT !.a = l.key, !.b = r.key],
                                      tree.ty),
                   key |-> r.ii.next_expr]))

RECURSIVE TreeVars(_)
TreeVars(tree) ==
    (IF tree.e.tag = "PathByName" THEN {tree.e.name} ELSE {})
      \cup UNION { TreeVars(tree.kids[i]) : i \in DOMAIN tree.kids }

\* The range expressions of the array types: expression 0 is the literal
\* ArrayLen, 1 the literal 0, 2 the name of the enum E (of ArrayLen + 1
\* variants), 3 the name of the variable s, 5 is `-1` (the negation of the
\* literal 4), 6 the literal true.
TInt0 == TypePrimitive("int")
TBool0 == TypePrimitive("bool")
BaseIntent ==
    [vars |-> EmptyFn, var_types |-> EmptyFn,
     exprs |-> (0 :> ExprImmediate(ArrayLen) @@ 1 :> ExprImmediate(0)
                  @@ 2 :> ExprPathByName("E") @@ 3 :> ExprPathByName("s")
                  @@ 4 :> ExprImmediate(1) @@ 5 :> ExprUnaryOp("Neg", 4)
                  @@ 6 :> ExprImmediateOf("Bool", 1)),
     expr_types |-> (0 :> TInt0 @@ 1 :> TInt0 @@ 2 :> TInt0 @@ 3 :> TInt0
                       @@ 4 :> TInt0 @@ 5 :> TInt0 @@ 6 :> TBool0),
     enums |-> ("E" :> ArrayLen + 1),
     constraints |-> << >>, next_var |-> 0, next_expr |-> 7,
     directives |-> << >>, top_level_symbols |-> {"E"}]

\* as the parser leaves them: no array size is resolved
TyA == TypeArray(TInt0, 0, None)                          \* int[ArrayLen]
TyM == TypeArray(TyA, 0, None)                            \* int[ArrayLen][ArrayLen]
TyE == TypeArray(TInt0, 2, None)                          \* int[E]
TyZ == TypeArray(TInt0, 1, None)                          \* int[0]
TyV == TypeArray(TInt0, 3, None)                          \* int[s]
TyW == TypeArray(TInt0, 5, None)                          \* int[-1]
TyY == TypeArray(TInt0, 6, None)                          \* int[true]
TyT == TypeTuple(<<TupleField("x", TInt0), TupleField("", TBool0)>>)
TyN == TypeTuple(<<TupleField("", TInt0), TupleField("", TyT)>>)
TyTA == TypeTuple(<<TupleField("", TyA), TupleField("", TInt0)>>)
TyAT == TypeArray(TypeTuple(<<TupleField("", TInt0), TupleField("", TInt0)>>), 0, None)

VarDecl(name, ty) == [name |-> name, ty |-> ty]
VarMenu ==
    << VarDecl("s", TInt0), VarDecl("a", TyA), VarDecl("b", TyA), VarDecl("m", TyM),
       VarDecl("e", TyE), VarDecl("t", TyT), VarDecl("u", TyT), VarDecl("n", TyN),
       VarDecl("ta", TyTA), VarDecl("at", TyAT), VarDecl("z", TyZ), VarDecl("v", TyV),
       VarDecl("w", TyW), VarDecl("y", TyY) >>

V(name) == PathT(name, (CHOOSE d \in Range(VarMenu) : d.name = name).ty)
EqS(tree) == BinT("Equal", tree, V("s"))

ConstraintMenu ==
    { EqS(IndexT(V("a"), ImmT(i))) : i \in 0..ArrayLen }
      \cup { EqS(IndexT(V("a"), V("s"))),
             EqS(IndexT(V("e"), ImmT(ArrayLen))),
             BinT("Equal", V("a"), V("b")),
             BinT("NotEqual", V("b"), V("a")),
             BinT("Equal", V("a"), V("e")),
             EqS(IndexT(IndexT(V("m"), ImmT(0)), ImmT(1))),
             BinT("Equal", V("m"), V("m")),
             BinT("Equal", IndexT(V("m"), ImmT(1)), V("a")),
             EqS(FieldByName(V("t"), "x")),
             EqS(FieldByIndex(V("t"), 0)),
             BinT("Equal", FieldByIndex(V("t"), 1), FieldByIndex(V("u"), 1)),
             BinT("Equal", V("t"), V("u")),
             BinT("NotEqual", V("u"), V("t")),
             EqS(FieldByName(FieldByIndex(V("n"), 1), "x")),
             BinT("Equal", FieldByIndex(FieldByIndex(V("n"), 1), 0), FieldByIndex(V("n"), 0)),
             BinT("Equal", V("n"), V("n")),
             BinT("Equal", FieldByIndex(V("n"), 1), V("t")),
             EqS(IndexT(FieldByIndex(V("ta"), 0), ImmT(0))),
             EqS(FieldByIndex(IndexT(V("at"), ImmT(0)), 0)),
             EqS(IndexT(V("z"), ImmT(0))),
             EqS(IndexT(V("v"), ImmT(0))),
             EqS(IndexT(V("w"), ImmT(0))),
             EqS(IndexT(V("y"), ImmT(0))),
             EqS(IndexT(V("a"), NegT(ImmT(1)))),
             EqS(IndexT(V("a"), BoolT(TRUE))),
             EqS(V("s")) }

RECURSIVE DeclareVars(_, _, _)
DeclareVars(ii, decls, names) ==
    IF decls = << >> THEN ii
    ELSE DeclareVars(IF Head(decls).name \in names
                     THEN InsertVar([ii EXCEPT !.top_level_symbols =
                                                   @ \cup {Head(decls).name}],
                                    Head(decls).name, Head(decls).ty)
                     ELSE ii,
                     Tail(decls), names)

RECURSIVE AddConstraints(_, _)
AddConstraints(ii, trees) ==
    IF trees = << >> THEN ii
    ELSE Let(InsertTree(ii, Head(trees)), LAMBDA r :
           AddConstraints([r.ii EXCEPT !.constraints = Append(@, r.key)], Tail(trees)))

Intent(trees) ==
    AddConstraints(
      DeclareVars(BaseIntent, VarMenu,
                  {"s"} \cup UNION { TreeVars(trees[i]) : i \in DOMAIN trees }),
      trees)

Intents ==
    { Intent(<<c>>) : c \in ConstraintMenu }
      \cup { Intent(<<c, d>>) : c \in ConstraintMenu, d \in ConstraintMenu }

\* ---- scalarize as a state machine ----
ScalInit ==
    /\ intent \in Intents
    /\ sc_pc = "fix_array_sizes"
    /\ modified = FALSE
    /\ loop_check = [outer |-> 0, inner |-> 0]
    /\ old_tuple_vars = << >>
    /\ pass = 0
    /\ lowered = [vars |-> << >>]
    /\ BuildIdle
    /\ AsmIdle
    /\ LibIdle
    /\ SymIdle
    /\ ProgIdle
    /\ ReplIdle
    /\ IterIdle

\* one round of iterate!(call, msg, modified) on the result r of the call;
\* next is where the code goes on when the call returned Ok(false)
Iterate(r, next) ==
    /\ intent' = r.ii
    /\ IF r.st /= "ok"
       THEN /\ sc_pc' = (IF r.st = "panic" THEN "panic" ELSE "Err")
            /\ UNCHANGED <<modified, loop_check>>
       ELSE IF ~r.modified
       THEN /\ sc_pc' = next
            /\ loop_check' = [loop_check EXCEPT !.inner = 0]
            /\ UNCHANGED modified
       ELSE /\ modified' = TRUE
            /\ IF loop_check.inner > LoopCheckLimit
               THEN sc_pc' = "Err" /\ UNCHANGED loop_check
               ELSE /\ loop_check' = [loop_check EXCEPT !.inner = @ + 1]
                    /\ UNCHANGED sc_pc

FixArraySizes ==
    /\ sc_pc = "fix_array_sizes"
    /\ \E r \in {fix_array_sizes(intent)} :
          /\ intent' = r.ii
          /\ sc_pc' = IF r.st = "ok" THEN "lower_array_compares" ELSE "Err"
    /\ UNCHANGED <<modified, loop_check, old_tuple_vars>>
    /\ UNCHANGED nonScalVars

LowerArrayCompares ==
    /\ sc_pc = "lower_array_compares"
    /\ \E r \in {lower_array_compares(intent)} : Iterate(r, "scalarize_array")
    /\ UNCHANGED old_tuple_vars
    /\ UNCHANGED nonScalVars

ScalarizeArray ==
    /\ sc_pc = "scalarize_array"
    /\ \E r \in {scalarize_array(intent)} : Iterate(r, "lower_tuple_compares")
    /\ UNCHANGED old_tuple_vars
    /\ UNCHANGED nonScalVars

LowerTupleCompares ==
    /\ sc_pc = "lower_tuple_compares"
    /\ \E r \in {lower_tuple_compares(intent)} : Iterate(r, "split_tuple_vars")
    /\ UNCHANGED old_tuple_vars
    /\ UNCHANGED nonScalVars

SplitTupleVars ==
    /\ sc_pc = "split_tuple_vars"
    /\ \E r \in {split_tuple_vars(intent, old_tuple_vars)} :
          /\ Iterate(r, "remove_old_tuple_vars")
          /\ old_tuple_vars' = IF r.st = "ok" THEN r.old ELSE old_tuple_vars
    /\ UNCHANGED nonScalVars

\* the end of scalarize_tuples and the round of the iterate! of scalarize
RemoveOldTupleVars ==
    /\ sc_pc = "remove_old_tuple_vars"
    /\ intent' = RemoveVars(intent, old_tuple_vars)
    /\ old_tuple_vars' = << >>
    /\ modified' = FALSE
    /\ IF ~modified
       THEN sc_pc' = "Ok" /\ UNCHANGED loop_check
       ELSE IF loop_check.outer > LoopCheckLimit
       THEN sc_pc' = "Err" /\ UNCHANGED loop_check
       ELSE /\ sc_pc' = "lower_array_compares"
            /\ loop_check' = [loop_check EXCEPT !.outer = @ + 1]
    /\ UNCHANGED nonScalVars

ScalNext ==
    \/ FixArraySizes
    \/ LowerArrayCompares
    \/ ScalarizeArray
    \/ LowerTupleCompares
    \/ SplitTupleVars
    \/ RemoveOldTupleVars

SpecScal == ScalInit /\ [][ScalNext]_vars

(***************************************************************************)
(* Claims about scalarize.                                                 *)
(***************************************************************************)
IsAccess(e) == e.tag \in {"ArrayElementAccess", "TupleFieldAccess"}

\* e names a decision variable of the intent, by name or by key
IsVarRef(ii, e) ==
    \/ e.tag = "PathByName" /\ \E k \in DOMAIN ii.vars : ii.vars[k] = e.name
    \/ e.tag = "PathByKey" /\ e.key \in DOMAIN ii.vars

\* e names a variable that was declared and is gone
IsStaleVarRef(ii, e) ==
    \/ e.tag = "PathByName" /\ \E i \in DOMAIN VarMenu : VarMenu[i].name = e.name
    \/ e.tag = "PathByKey" /\ e.key \notin DOMAIN ii.vars

\* C4: when scalarize returns Ok, every decision variable has a type that
\* is neither an array nor a tuple, and no array element access or tuple
\* field access that remains has a decision variable, by name or by key, as
\* its base (nor a variable that scalarize removed).
T_C4_ScalarizeExit ==
    sc_pc = "Ok" =>
      /\ \A k \in DOMAIN intent.vars :
            /\ k \in DOMAIN intent.var_types
            /\ ~is_array(intent.var_types[k])
            /\ ~is_tuple(intent.var_types[k])
      /\ \A k \in DOMAIN intent.exprs :
            IsAccess(intent.exprs[k]) =>
               /\ intent.exprs[k].a \in DOMAIN intent.exprs
               /\ ~IsVarRef(intent, intent.exprs[intent.exprs[k].a])
               /\ ~IsStaleVarRef(intent, intent.exprs[intent.exprs[k].a])

\* C4 witness: scalarize returned Ok on an intent that declared the nested
\* array m and the nested tuple n: their scalars m[0][1] and n.1.x exist and
\* a constraint is now a comparison of two variables by key.
W_C4_NestedSplit ==
    /\ sc_pc = "Ok"
    /\ \E k \in DOMAIN intent.vars : intent.vars[k] = "m[0][1]"
    /\ \E k \in DOMAIN intent.vars : intent.vars[k] = "n.1.x"
    /\ \E i \in DOMAIN intent.constraints :
          /\ intent.exprs[intent.constraints[i]].tag = "BinaryOp"
          /\ intent.exprs[intent.exprs[intent.constraints[i]].a].tag = "PathByKey"

(***************************************************************************)
(* Claims about decision-variable slots and name lookup.                   *)
(***************************************************************************)

\* the variables of one visibility, in declaration order
VarsOfVisibility(pred, is_pub) ==
    SelectSeq(pred.vars, LAMBDA v : v.is_pub = is_pub)

\* the number of variables of the visibility of pred.vars[i] declared before it
RankInVisibility(pred, i) ==
    Cardinality({ j \in 1..(i - 1) : pred.vars[j].is_pub = pred.vars[i].is_pub })

\* the public variables of the predicate interface an instance refers to
ExternVars(pred) ==
    UNION { { [path |-> pi.name \o "::" \o v.name, ty |-> v.ty] :
                 v \in Range(pred.interfaces[1].predicate_interfaces[1].vars) } :
            pi \in Range(pred.predicate_instances) }

\* what a name stands for: the first of private variable, public variable,
\* state, public variable of a predicate instance
Resolution(pred, name) ==
    LET Declared(is_pub) ==
          { i \in DOMAIN pred.vars :
               pred.vars[i].name = name /\ pred.vars[i].is_pub = is_pub }
        First(S) == CHOOSE i \in S : \A j \in S : i <= j
    IN IF Declared(FALSE) /= {}
       THEN [kind |-> "private", index |-> RankInVisibility(pred, First(Declared(FALSE)))]
       ELSE IF Declared(TRUE) /= {}
       THEN [kind |-> "public", index |-> RankInVisibility(pred, First(Declared(TRUE)))]
       ELSE IF \E i \in DOMAIN pred.states : pred.states[i].name = name
       THEN [kind |-> "state", index |-> -1]
       ELSE IF \E v \in ExternVars(pred) : v.path = name
       THEN [kind |-> "extern", index |-> -1]
       ELSE [kind |-> "none", index |-> -1]

\* the access op that ends the read of a name of each kind
AccessOps(kind) ==
    CASE kind = "private" -> {Op("DecisionVar"), Op("DecisionVarRange")}
      [] kind = "public" -> {Op("Transient")}
      [] kind = "state" -> {Op("State"), Op("StateRange")}
      [] kind = "extern" -> {Op("Transient")}
      [] OTHER -> {}

\* the op that hands the pathway to Transient: this predicate's own pathway
\* for a public variable, the instance's pathway variable for an external one
PathwayOps(kind) ==
    CASE kind = "public" -> {Op("ThisPathway")}
      [] kind = "extern" -> {Op("DecisionVar")}
      [] OTHER -> {}

\* every variable type replaced by int
Retyped(pred) ==
    [pred EXCEPT !.vars = [i \in DOMAIN pred.vars |-> [pred.vars[i] EXCEPT !.ty = TInt]]]

\* the index compile_path pushes for a name
PushedIndex(pred, name) ==
    Let(compile_path(<< >>, name, pred), LAMBDA r :
        IF r.st = "ok" /\ r.asm /= << >> THEN r.asm[1].arg ELSE -1)

\* the indices compile_path pushes for the variables of one visibility
PushedIndices(pred, is_pub) ==
    { PushedIndex(pred, v.name) : v \in Range(VarsOfVisibility(pred, is_pub)) }

\* a name is declared once among the variables
DeclaredOnce(pred) ==
    \A i, j \in DOMAIN pred.vars : pred.vars[i].name = pred.vars[j].name => i = j

\* a predicate with variables of both visibilities went through the
\* generator and its constraint `p == p` was compiled
SlotConstraintCompiled ==
    /\ predicate.predicate_instances /= << >>
    /\ c_asm /= << >>

\* the ops of the left operand of the compiled constraint `p == p`
LhsOps == SubSeq(c_asm[1], 1, (Len(c_asm[1]) - 1) \div 2)

StorageOf(expr, pred) ==
    IF expr.tag = "StorageAccess"
    THEN pred.storage.vars
    ELSE LET inst == CHOOSE e \in Range(pred.interface_instances) : e.name = expr.op
             iface == CHOOSE e \in Range(pred.interfaces) : e.name = inst.interface
         IN iface.storage.vars

\* the declaration index of the variable a direct access reads
DeclIndex(expr, pred) ==
    (CHOOSE i \in DOMAIN StorageOf(expr, pred) :
        StorageOf(expr, pred)[i].name = expr.name) - 1

\* the sum of storage_slots of the fields before field idx of a tuple type
FieldOffset(ty, idx) == SeqSum([i \in 1..idx |-> StorageSlots(ty.fields[i])])

\* a direct storage access, or a chain of tuple field accesses on one
RECURSIVE IsStaticPath(_)
IsStaticPath(expr) ==
    CASE expr.tag \in {"StorageAccess", "ExternalStorageAccess"} -> TRUE
      [] expr.tag = "TupleFieldAccess" -> IsStaticPath(expr.args[1])
      [] OTHER -> FALSE

\* the key of a static path: [idx] or [idx, 0] at the access, the last word
\* moved by the field offset at every field access
RECURSIVE StaticKeyOf(_, _)
StaticKeyOf(expr, pred) ==
    IF expr.tag = "TupleFieldAccess"
    THEN Let(StaticKeyOf(expr.args[1], pred), LAMBDA key :
             [key EXCEPT ![Len(key)] = @ + FieldOffset(expr.args[1].ty, expr.val)])
    ELSE LET idx == DeclIndex(expr, pred)
             ty == StorageOf(expr, pred)[idx + 1].ty
         IN IF is_any_primitive(ty) \/ is_map(ty) THEN <<idx>> ELSE <<idx, 0>>

\* an expression and the expressions it is an access on
RECURSIVE Subpaths(_)
Subpaths(expr) ==
    IF expr.tag \in {"TupleFieldAccess", "Index"}
    THEN {expr} \cup Subpaths(expr.args[1])
    ELSE {expr}

\* compile_state_key on a static path records the key the path stands for and
\* emits ops that leave exactly these words on the stack, above the address
\* words of an external access
StaticKeyLaw(prog, expr, pred) ==
    Let(compile_state_key(<< >>, expr, pred), LAMBDA key :
      /\ key.st = "ok"
      /\ key.kind = "Static"
      /\ key.key = StaticKeyOf(expr, pred)
      /\ key.is_extern = IsExternal(expr)
      /\ SubSeq(prog, 1, Len(key.asm)) = key.asm
      /\ Let(RunOps(key.asm, << >>), LAMBDA stk :
           /\ Len(stk) = Len(key.key) + (IF IsExternal(expr) THEN TySize(TB256) ELSE 0)
           /\ SubSeq(stk, Len(stk) - Len(key.key) + 1, Len(stk)) = key.key))

AddressWords ==
    Let(compile_expr(<< >>, PredInterfaceInstances[1].address, predicate),
        LAMBDA r : r.asm)

\* `state y = Foo::storage::addr[3]` went through the generator
AddrStateCompiled ==
    /\ ReturnedOk
    /\ predicate \in AddrPredicates
    /\ Len(s_asm) = 1

IntrinsicCompiled ==
    /\ predicate.constraints \in { <<c>> : c \in IntrinsicConstraints }
    /\ a_i = NumStates + NumConstraints

CalledIntrinsic == predicate.constraints[1].args[1]

\* the access ops the calls are said to compile to
StatedAccessOp ==
    [name \in {"__mut_keys_len", "__this_address", "__this_contract_address",
                "__this_pathway"} |->
        CASE name = "__mut_keys_len" -> "MutKeysLen"
          [] name = "__this_address" -> "ThisAddress"
          [] name = "__this_contract_address" -> "ThisContractAddress"
          [] name = "__this_pathway" -> "ThisPathway"]

\* the call compiles to the one op, and the constraint `__f() == __f()` to
\* the op twice followed by the comparison
CompilesToAccess(op) ==
    /\ Let(compile_expr(<< >>, CalledIntrinsic, predicate),
           LAMBDA r : r.st = "ok" /\ r.asm = <<Op(op)>>)
    /\ a_pc /= "panic"
    /\ ~has_errors
    /\ Len(c_asm) = 1
    /\ SubSeq(c_asm[1], 1, 2) = <<Op(op), Op(op)>>

\* C21 as stated: a call of __this_contract_address without arguments
\* compiles to the single op ThisContractAddress, as __this_address does to
\* ThisAddress, __this_pathway to ThisPathway and __mut_keys_len to
\* MutKeysLen; none of the four names is rejected as an unexpected intrinsic.
CE_C21_AsStated ==
    (IntrinsicCompiled /\ CalledIntrinsic.name \in DOMAIN StatedAccessOp) =>
        CompilesToAccess(StatedAccessOp[CalledIntrinsic.name])

\* what the generator does: the whole name is matched, the contract address
\* is spelled __this_set_address, and any other name is reported as an error
\* of the handler with nothing emitted.
T_C21_CodeNames ==
    IntrinsicCompiled =>
        IF CalledIntrinsic.name \in DOMAIN AccessOpOf
        THEN CompilesToAccess(AccessOpOf[CalledIntrinsic.name])
        ELSE has_errors /\ c_asm = << >> /\ a_pc \in {"loop", "Err"}

W_C21_ContractAddressRejected ==
    /\ IntrinsicCompiled
    /\ CalledIntrinsic.name = "__this_contract_address"
    /\ a_pc = "Err"

\* the predicate is `constraint <literal>;` and its constraint went through
\* compile_constraint
LiteralCompiled ==
    /\ predicate.constraints \in { <<c>> : c \in LiteralConstraints }
    /\ a_i = NumStates + NumConstraints

\* C22 as stated: a boolean literal constraint compiles to the one-op program
\* Push(1) for true and Push(0) for false; an int or bool immediate emits
\* exactly one Push of its word value and the generator never aborts on it.
CE_C22_AsStated ==
    LiteralCompiled =>
        /\ a_pc /= "panic"
        /\ ~has_errors
        /\ c_asm = <<<<Push(predicate.constraints[1].val)>>>>

\* what the generator does: an int literal is one Push of its value, a bool
\* literal reaches unimplemented! and the generator aborts.
T_C22_IntOnly ==
    LiteralCompiled =>
        IF predicate.constraints[1].op = "Int"
        THEN /\ a_pc /= "panic"
             /\ ~has_errors
             /\ c_asm = <<<<Push(predicate.constraints[1].val)>>>>
        ELSE a_pc = "panic" /\ c_asm = << >>

W_C22_BoolAborts ==
    /\ LiteralCompiled
    /\ predicate.constraints[1] = ImmBool(TRUE)
    /\ a_pc = "panic"

(***************************************************************************)
(* CANONICALIZATION (yurtc/src/intermediate/transform/canonicalize.rs)     *)
(* and the lowering passes run one after the other.                        *)
(***************************************************************************)

\* ---- SolveFunc ----
SolveFunc(func, expr) == [func |-> func, expr |-> expr]
Satisfy == SolveFunc("Satisfy", None)
Minimize(expr_key) == SolveFunc("Minimize", expr_key)
Maximize(expr_key) == SolveFunc("Maximize", expr_key)

\* IntermediateIntent::insert_var: the name enters the symbol table, which
\* reports a clash with an earlier declaration, and the variable its tables
insert_var(ii, name, ty) ==
    IF name \in ii.top_level_symbols
    THEN ScalErr(ii, "NameClash")
    ELSE ScalOk(InsertVar([ii EXCEPT !.top_level_symbols = @ \cup {name}], name, ty),
                TRUE)

\* canonicalize_directive that turns every objective into one to minimize
canonicalize_directive_AlwaysMinimize(ii) ==
    IF ii.directives = << >>
    THEN ScalErr(ii, "MissingSolveDirective")
    ELSE LET solve_func == ii.directives[1]
             directive_expr_key == solve_func.expr
         IN IF solve_func.func = "Satisfy"
            THEN ScalOk(ii, FALSE)
            ELSE IF directive_expr_key \notin DOMAIN ii.expr_types
            THEN ScalErr(ii, "Internal")
            ELSE LET directive_expr_type == ii.expr_types[directive_expr_key]
                     v == insert_var(ii, "__objective", directive_expr_type)
                 IN IF v.st /= "ok"
                    THEN v
                    ELSE LET objective_expr_key == v.ii.next_expr
                             with_objective ==
                               InsertTyped(v.ii, ExprPathByName("__objective"),
                                           directive_expr_type)
                             eq_expr_key == with_objective.next_expr
                             with_eq ==
                               InsertTyped(with_objective,
                                           ExprBinaryOp("Equal", objective_expr_key,
                                                        directive_expr_key),
                                           TypePrimitive("bool"))
                         IN ScalOk([with_eq EXCEPT
                                      !.constraints = Append(@, eq_expr_key),
                                      !.directives[1] =
                                         Minimize(objective_expr_key)],
                                   TRUE)

\* canonicalize_directive
canonicalize_directive(ii) ==
    IF ii.directives = << >>
    THEN ScalErr(ii, "MissingSolveDirective")
    ELSE LET solve_func == ii.directives[1]
             directive_expr_key == solve_func.expr
         IN IF solve_func.func = "Satisfy"
            THEN ScalOk(ii, FALSE)
            ELSE IF directive_expr_key \notin DOMAIN ii.expr_types
            THEN ScalErr(ii, "Internal")
            ELSE LET directive_expr_type == ii.expr_types[directive_expr_key]
                     v == insert_var(ii, "__objective", directive_expr_type)
                 IN IF v.st /= "ok"
                    THEN v
                    ELSE LET objective_expr_key == v.ii.next_expr
                             with_objective ==
                               InsertTyped(v.ii, ExprPathByName("__objective"),
                                           directive_expr_type)
                             eq_expr_key == with_objective.next_expr
                             with_eq ==
                               InsertTyped(with_objective,
                                           ExprBinaryOp("Equal", objective_expr_key,
                                                        directive_expr_key),
                                           TypePrimitive("bool"))
                         IN ScalOk([with_eq EXCEPT
                                      !.constraints = Append(@, eq_expr_key),
                                      !.directives[1] =
                                         SolveFunc(solve_func.func, objective_expr_key)],
                                   TRUE)

\* canonicalize
canonicalize(ii) == canonicalize_directive(ii)

\* ---- the intents handed to the lowering passes ----
\* the expressions a directive optimises: the variable s, and the left
\* operand of the first constraint when it is an int
ObjectiveExprs(ii) ==
    {3} \cup { k \in {ii.exprs[ii.constraints[1]].a} : ii.expr_types[k] = TInt0 }

\* no directive, satisfy, or minimize / maximize of an expression
DirectiveMenu(ii) ==
    {<< >>, <<Satisfy>>}
      \cup { <<Minimize(k)>> : k \in ObjectiveExprs(ii) }
      \cup { <<Maximize(k)>> : k \in ObjectiveExprs(ii) }

WithDirectives(ii, ds) == [ii EXCEPT !.directives = ds]

\* the intent declares a variable named __objective itself
DeclaresObjective(ii) ==
    InsertVar([ii EXCEPT !.top_level_symbols = @ \cup {"__objective"}],
              "__objective", TInt0)

LowerIntents ==
    UNION { { WithDirectives(Intent(<<c>>), ds) : ds \in DirectiveMenu(Intent(<<c>>)) } :
            c \in ConstraintMenu }
      \cup { WithDirectives(DeclaresObjective(Intent(<<EqS(V("s"))>>)), ds) :
                ds \in {<<Satisfy>>, <<Minimize(3)>>, <<Maximize(3)>>} }

\* ---- canonicalize, then scalarize; then both again on the result ----
LowerInit ==
    /\ intent \in LowerIntents
    /\ sc_pc = "canonicalize"
    /\ modified = FALSE
    /\ loop_check = [outer |-> 0, inner |-> 0]
    /\ old_tuple_vars = << >>
    /\ pass = 1
    /\ lowered = [vars |-> << >>]
    /\ BuildIdle
    /\ AsmIdle
    /\ LibIdle
    /\ SymIdle
    /\ ProgIdle
    /\ ReplIdle
    /\ IterIdle

Canonicalize ==
    /\ sc_pc = "canonicalize"
    /\ \E r \in {canonicalize(intent)} :
          /\ intent' = r.ii
          /\ sc_pc' = IF r.st = "ok" THEN "fix_array_sizes" ELSE "Err"
    /\ UNCHANGED <<modified, loop_check, old_tuple_vars>>
    /\ UNCHANGED nonScalVars

\* the passes are run again on what they returned
Rerun ==
    /\ sc_pc = "Ok"
    /\ pass = 1
    /\ pass' = 2
    /\ lowered' = intent
    /\ sc_pc' = "canonicalize"
    /\ modified' = FALSE
    /\ loop_check' = [outer |-> 0, inner |-> 0]
    /\ old_tuple_vars' = << >>
    /\ UNCHANGED <<intent, buildVars, asmVars, libVars, symVars, progVars, replVars, iterVars>>

LowerNext ==
    \/ Canonicalize
    \/ Rerun
    \/ FixArraySizes
    \/ LowerArrayCompares
    \/ ScalarizeArray
    \/ LowerTupleCompares
    \/ SplitTupleVars
    \/ RemoveOldTupleVars

SpecLower == LowerInit /\ [][LowerNext]_vars

(***************************************************************************)
(* Claims about canonicalize.                                              *)
(***************************************************************************)

\* the keys of the variables named name
VarsNamed(ii, name) == { k \in DOMAIN ii.vars : ii.vars[k] = name }

\* e is a reference by name to __objective
IsObjectiveRef(ii, key) ==
    /\ key \in DOMAIN ii.exprs
    /\ ii.exprs[key].tag = "PathByName"
    /\ ii.exprs[key].name = "__objective"

\* out is in with nothing changed
Untouched(in, out) ==
    /\ out.vars = in.vars
    /\ out.var_types = in.var_types
    /\ out.exprs = in.exprs
    /\ out.expr_types = in.expr_types
    /\ out.constraints = in.constraints
    /\ out.directives = in.directives

\* out is in with the objective of its first directive moved into a variable:
\* one more variable, named __objective and of the type of the objective;
\* one more constraint, `__objective == E`; the first directive of the same
\* kind on a reference to __objective
ObjectiveMoved(in, out) ==
    LET func == in.directives[1].func
        E == in.directives[1].expr
        added == DOMAIN out.vars \ DOMAIN in.vars
    IN /\ Cardinality(added) = 1
       /\ \A k \in DOMAIN in.vars :
             /\ k \in DOMAIN out.vars
             /\ out.vars[k] = in.vars[k]
             /\ out.var_types[k] = in.var_types[k]
       /\ \A k \in added :
             /\ out.vars[k] = "__objective"
             /\ out.var_types[k] = in.expr_types[E]
       /\ Len(out.constraints) = Len(in.constraints) + 1
       /\ SubSeq(out.constraints, 1, Len(in.constraints)) = in.constraints
       /\ LET c == out.exprs[out.constraints[Len(out.constraints)]]
          IN /\ c.tag = "BinaryOp"
             /\ c.op = "Equal"
             /\ IsObjectiveRef(out, c.a)
             /\ c.b = E
       /\ \A k \in DOMAIN in.exprs : k \in DOMAIN out.exprs /\ out.exprs[k] = in.exprs[k]
       /\ Len(out.directives) = Len(in.directives)
       /\ out.directives[1].func = func
       /\ IsObjectiveRef(out, out.directives[1].expr)

\* what C14 says of the result r of canonicalize on the intent in
CanonicalizeLaw(in, r) ==
    IF in.directives = << >>
    THEN r.st = "err" /\ r.err = "MissingSolveDirective" /\ Untouched(in, r.ii)
    ELSE IF in.directives[1].func = "Satisfy"
    THEN r.st = "ok" /\ Untouched(in, r.ii)
    ELSE r.st = "ok" /\ ObjectiveMoved(in, r.ii)

\* canonicalize is about to run
AtCanonicalize == sc_pc = "canonicalize"

\* C14 as stated: on `minimize E` or `maximize E` canonicalize adds the
\* variable __objective of E's type and the constraint `__objective == E` and
\* puts a reference to __objective under the same directive; on `satisfy` it
\* changes nothing; with no directive it fails with MissingSolveDirective and
\* changes nothing.
CE_C14_AsStated ==
    AtCanonicalize =>
      Let(canonicalize(intent), LAMBDA r : CanonicalizeLaw(intent, r))

\* C14, amended: the same, on an intent in which the name __objective is not
\* declared yet; where it is declared, `minimize E` and `maximize E` fail
\* with NameClash and change nothing.
T_C14_Canonicalize ==
    AtCanonicalize =>
      Let(canonicalize(intent), LAMBDA r :
          IF /\ intent.directives /= << >>
             /\ intent.directives[1].func /= "Satisfy"
             /\ "__objective" \in intent.top_level_symbols
          THEN r.st = "err" /\ r.err = "NameClash" /\ Untouched(intent, r.ii)
          ELSE CanonicalizeLaw(intent, r))

\* C14 witness: canonicalize has rewritten `maximize E`: the variable
\* __objective exists, the last constraint equates a reference to it with an
\* array element access, and the directive is maximize of such a reference.
W_C14_MaximizeRewritten ==
    /\ pass = 1
    /\ sc_pc = "fix_array_sizes"
    /\ Cardinality(VarsNamed(intent, "__objective")) = 1
    /\ intent.directives /= << >>
    /\ intent.directives[1].func = "Maximize"
    /\ IsObjectiveRef(intent, intent.directives[1].expr)
    /\ LET c == intent.exprs[intent.constraints[Len(intent.constraints)]]
       IN /\ IsObjectiveRef(intent, c.a)
          /\ intent.exprs[c.b].tag = "ArrayElementAccess"

\* C17 as stated: when the lowering passes have succeeded on an intent, a
\* second run of them on the result succeeds and leaves variables,
\* expressions, types, constraints and directive as they were.
CE_C17_Idempotent ==
    pass = 2 =>
      /\ sc_pc \notin {"Err", "panic"}
      /\ sc_pc = "Ok" => Untouched(lowered, intent)

(***************************************************************************)
(* Claims about the lowering of array comparisons.                         *)
(***************************************************************************)

\* expression k is `==` or `!=` between two expressions of array type
ComparesArrays(ii, k) ==
    /\ ii.exprs[k].tag = "BinaryOp"
    /\ ii.exprs[k].op \in {"Equal", "NotEqual"}
    /\ is_array(ii.expr_types[ii.exprs[k].a])
    /\ is_array(ii.expr_types[ii.exprs[k].b])

ArrayComparisons(ii) == { k \in DOMAIN ii.exprs : ComparesArrays(ii, k) }

SizesOf(ii, k) ==
    <<ii.expr_types[ii.exprs[k].a].size, ii.expr_types[ii.exprs[k].b].size>>

\* expression k is array[i] with a literal i
IsElementAccess(ii, k, array, i) ==
    /\ k \in DOMAIN ii.exprs
    /\ ii.exprs[k].tag = "ArrayElementAccess"
    /\ ii.exprs[k].a = array
    /\ ii.exprs[k].b \in DOMAIN ii.exprs
    /\ ii.exprs[ii.exprs[k].b] = ExprImmediate(i)

\* expression c is lhs[i] op rhs[i]
IsElementCompare(ii, c, op, lhs, rhs, i) ==
    /\ c \in DOMAIN ii.exprs
    /\ ii.exprs[c].tag = "BinaryOp"
    /\ ii.exprs[c].op = op
    /\ IsElementAccess(ii, ii.exprs[c].a, lhs, i)
    /\ IsElementAccess(ii, ii.exprs[c].b, rhs, i)

\* expression c is lhs[0] op rhs[0] && ... && lhs[count-1] op rhs[count-1]
RECURSIVE IsCompareChain(_, _, _, _, _, _)
IsCompareChain(ii, c, op, lhs, rhs, count) ==
    IF count = 1
    THEN IsElementCompare(ii, c, op, lhs, rhs, 0)
    ELSE /\ c \in DOMAIN ii.exprs
         /\ ii.exprs[c].tag = "BinaryOp"
         /\ ii.exprs[c].op = "LogicalAnd"
         /\ IsElementCompare(ii, ii.exprs[c].b, op, lhs, rhs, count - 1)
         /\ IsCompareChain(ii, ii.exprs[c].a, op, lhs, rhs, count - 1)

\* key k is referenced nowhere in ii
Unreferenced(ii, k) ==
    /\ k \notin DOMAIN ii.exprs
    /\ \A j \in DOMAIN ii.exprs : ii.exprs[j].a /= k /\ ii.exprs[j].b /= k
    /\ \A i \in DOMAIN ii.constraints : ii.constraints[i] /= k

\* in out, the chain c stands wherever in referred to the comparison k
ReplacedBy(in, out, k, c) ==
    /\ \A i \in DOMAIN in.constraints :
          in.constraints[i] = k => out.constraints[i] = c
    /\ \A j \in DOMAIN in.exprs \cap DOMAIN out.exprs :
          /\ in.exprs[j].a = k => out.exprs[j].a = c
          /\ in.exprs[j].b = k => out.exprs[j].b = c

\* what C15 says of the result r of lower_array_compares on the intent in
ArrayCompareLaw(in, r) ==
    LET mismatched == { k \in ArrayComparisons(in) : SizesOf(in, k)[1] /= SizesOf(in, k)[2] }
    IN IF ArrayComparisons(in) = {}
       THEN r.st = "ok" /\ ~r.modified /\ r.ii = in
       ELSE IF mismatched /= {}
       THEN /\ r.st = "err"
            /\ \E k \in mismatched :
                  r.err = MismatchedArrayComparisonSizes(
                             IF in.exprs[k].op = "Equal" THEN "==" ELSE "!=",
                             SizesOf(in, k)[1], SizesOf(in, k)[2])
       ELSE /\ r.st = "ok"
            /\ r.modified
            /\ \A k \in ArrayComparisons(in) :
                  /\ Unreferenced(r.ii, k)
                  /\ \E c \in DOMAIN r.ii.exprs \ DOMAIN in.exprs :
                        /\ IsCompareChain(r.ii, c, in.exprs[k].op, in.exprs[k].a,
                                          in.exprs[k].b, SizesOf(in, k)[1])
                        /\ ReplacedBy(in, r.ii, k, c)

\* C15: lower_array_compares replaces every `==` or `!=` between two arrays
\* of equal size N, wherever it is referenced, by the `&&`-chain of the N
\* comparisons a[i] op b[i], i = 0 .. N-1 in this order, and removes it; with
\* sizes that differ it fails with MismatchedArrayComparisonSizes carrying
\* the operator and the two sizes; once the step has been repeated until it
\* reports no change, no comparison of arrays is left, however deep the
\* arrays nest.
T_C15_ArrayCompares ==
    /\ sc_pc = "lower_array_compares" =>
          Let(lower_array_compares(intent), LAMBDA r : ArrayCompareLaw(intent, r))
    /\ sc_pc \in {"scalarize_array", "Ok"} => ArrayComparisons(intent) = {}

\* C15 witness: `m == m` on the nested array m has been lowered in two
\* rounds: a comparison m[0][1] == m[0][1] stands in a chain and no
\* comparison of arrays is left.
W_C15_NestedLowered ==
    /\ sc_pc = "scalarize_array"
    /\ ArrayComparisons(intent) = {}
    /\ \E c, l, r \in DOMAIN intent.exprs :
          /\ IsElementAccess(intent, l, intent.exprs[l].a, 0)
          /\ IsElementAccess(intent, r, intent.exprs[r].a, 0)
          /\ intent.exprs[intent.exprs[l].a] = ExprPathByName("m")
          /\ intent.exprs[intent.exprs[r].a] = ExprPathByName("m")
          /\ IsElementCompare(intent, c, "Equal", l, r, 1)
          /\ \E top \in DOMAIN intent.exprs :
                /\ intent.exprs[top].tag = "BinaryOp"
                /\ intent.exprs[top].op = "LogicalAnd"
                /\ intent.exprs[top].b = c

(***************************************************************************)
(* Claims about the scalarization of array variables.                      *)
(***************************************************************************)

\* the accesses var[e] of the array variable k in ii
AccessesOf(ii, k) ==
    { j \in DOMAIN ii.exprs :
         /\ ii.exprs[j].tag = "ArrayElementAccess"
         /\ \/ ii.exprs[ii.exprs[j].a] = ExprPathByName(ii.vars[k])
            \/ ii.exprs[ii.exprs[j].a] = ExprPathByKey(k) }

\* the error C16 names for the index of the access j into an array of the
\* given size, "" for an index in range
IndexError(ii, j, size) ==
    Let(evaluate(ii, ii.exprs[j].b), LAMBDA v :
        IF ~v.ok THEN "NonConstArrayIndex"
        ELSE IF v.kind /= "Int" THEN "InvalidConstArrayIndex"
        ELSE IF v.val < 0 \/ v.val >= size THEN "ArrayIndexOutOfBounds"
        ELSE "")

ElementName(name, i) == name \o "[" \o ToString(i) \o "]"

\* the variables of out that in does not have
NewVars(in, out) == DOMAIN out.vars \ DOMAIN in.vars

\* out is in with the array variable k split into its elements
SplitInto(in, out, k) ==
    LET name == in.vars[k]
        size == in.var_types[k].size
    IN /\ k \notin DOMAIN out.vars
       /\ VarsNamed(out, name) = {}
       /\ \A v \in DOMAIN in.vars \ {k} :
             v \in DOMAIN out.vars /\ out.vars[v] = in.vars[v]
       /\ Cardinality(NewVars(in, out)) = size
       /\ \A i \in 0 .. size - 1 :
             \E v \in NewVars(in, out) :
                /\ out.vars[v] = ElementName(name, i)
                /\ out.var_types[v] = in.var_types[k].el[1]
       /\ \A j \in AccessesOf(in, k) :
             /\ Unreferenced(out, j)
             /\ \E p \in DOMAIN out.exprs \ DOMAIN in.exprs :
                   /\ out.exprs[p].tag = "PathByKey"
                   /\ out.exprs[p].key \in NewVars(in, out)
                   /\ out.vars[out.exprs[p].key] =
                         ElementName(name, evaluate(in, in.exprs[j].b).val)
                   /\ ReplacedBy(in, out, j, p)

\* what C16 says of the result r of scalarize_array on the intent in; an
\* array variable without a resolved size (a tuple field turned variable) is
\* an error
ScalarizeArrayLaw(in, r) ==
    IF ArrayVars(in) = {}
    THEN r.st = "ok" /\ ~r.modified /\ r.ii = in
    ELSE IF \E k \in ArrayVars(in) : in.var_types[k].size = None
    THEN r.st = "err"
    ELSE \E k \in ArrayVars(in) :
            LET errors == { IndexError(in, j, in.var_types[k].size) :
                               j \in AccessesOf(in, k) } \ {""}
            IN IF errors /= {}
               THEN r.st = "err" /\ r.err \in errors
               ELSE r.st = "ok" /\ r.modified /\ SplitInto(in, r.ii, k)

\* ty is an array type with a length, at some depth, that evaluates to an
\* integer below one
RECURSIVE HasEmptyLength(_, _)
HasEmptyLength(ii, ty) ==
    /\ is_array(ty)
    /\ ty.size = None
    /\ \/ Let(evaluate(ii, ty.range), LAMBDA v : v.ok /\ v.kind = "Int" /\ v.val <= 0)
       \/ HasEmptyLength(ii, ty.el[1])

\* C16: scalarize_array replaces one array variable a of size N by the N
\* variables a[0] .. a[N-1] of the element type and every access a[e] with a
\* constant integer e in 0 .. N-1 by a direct reference to a[e]; an integer
\* index below 0 or above N-1 fails with ArrayIndexOutOfBounds, a constant
\* index that is not an integer with InvalidConstArrayIndex, an index that is
\* not constant with NonConstArrayIndex; fix_array_sizes fails on an intent
\* with an array variable whose length evaluates to zero or less (with
\* InvalidConstArrayLength where these are its only arrays), so no such array
\* reaches scalarize_array.
T_C16_ScalarizeArray ==
    /\ sc_pc = "scalarize_array" =>
          /\ Let(scalarize_array(intent), LAMBDA r : ScalarizeArrayLaw(intent, r))
          /\ \A k \in ArrayVars(intent) :
                intent.var_types[k].size = None \/ intent.var_types[k].size >= 1
    /\ sc_pc = "fix_array_sizes" =>
          ((\E k \in DOMAIN intent.vars : HasEmptyLength(intent, intent.var_types[k]))
             => Let(fix_array_sizes(intent), LAMBDA r :
                    /\ r.st = "err"
                    /\ (\A k \in DOMAIN intent.vars :
                           is_array(intent.var_types[k]) =>
                              /\ HasEmptyLength(intent, intent.var_types[k])
                              /\ is_int(intent.var_types[k].el[1]))
                         => r.err = "InvalidConstArrayLength"))

\* C16 witness: the array a of two elements has been split: a is gone, a[0]
\* and a[1] are variables, and a constraint compares a direct reference to
\* a[1].
W_C16_ArraySplit ==
    /\ sc_pc = "scalarize_array"
    /\ VarsNamed(intent, "a") = {}
    /\ VarsNamed(intent, "a[0]") /= {}
    /\ \E v \in VarsNamed(intent, "a[1]") :
          \E p, c \in DOMAIN intent.exprs :
             /\ intent.exprs[p] = ExprPathByKey(v)
             /\ intent.exprs[c].tag = "BinaryOp"
             /\ intent.exprs[c].a = p
             /\ \E i \in DOMAIN intent.constraints : intent.constraints[i] = c

(***************************************************************************)
(* TWO BUILDS SHARING THE TEMPORARY DIRECTORY                              *)
(* Two contracts are built at the same time by build_pkg, from the call of *)
(* compile_program on; every file-system call of contract_dep_lib is a     *)
(* step of its own, and std::fs::write is two steps: the file is created   *)
(* or truncated, then the bytes are written.                               *)
(***************************************************************************)
Builders == {1, 2}

\* pinned.name of the package each build compiles
PkgName(b) == IF b = 1 THEN "left" ELSE "right"

\* Program::ROOT_PRED_NAME, the empty string, as a token sequence
ROOT_PRED_NAME == << >>

\* one entry of program.preds: its name, whether predicate_to_asm succeeds
\* on it, and the content address of the bytecode it compiles to
ProgramPred(name, ok, ca) == [name |-> name, ok |-> ok, ca |-> ca]

Program(kind, preds) == [kind |-> kind, preds |-> preds]

RootPred == ProgramPred(ROOT_PRED_NAME, TRUE, 1)

\* the programs a build is given: two that declare the same predicates in
\* either order, one that names the first of them differently, one with a
\* predicate named lib, one with a predicate named ::lib, one with the
\* predicates root and ::root, one whose predicate does not compile
Programs ==
    { Program("Stateless", <<RootPred>>),
      Program("Stateful", <<RootPred, ProgramPred(<<"Foo">>, TRUE, 2),
                            ProgramPred(<<"a", "::", "b", "::", "c">>, TRUE, 1)>>),
      Program("Stateful", <<RootPred, ProgramPred(<<"a", "::", "b", "::", "c">>, TRUE, 1),
                            ProgramPred(<<"Foo">>, TRUE, 2)>>),
      Program("Stateful", <<RootPred, ProgramPred(<<"Bar">>, TRUE, 2),
                            ProgramPred(<<"a", "::", "b", "::", "c">>, TRUE, 1)>>),
      Program("Stateful", <<RootPred, ProgramPred(<<"lib">>, TRUE, 2)>>),
      Program("Stateful", <<RootPred, ProgramPred(<<"::", "lib">>, TRUE, 2)>>),
      Program("Stateful", <<RootPred, ProgramPred(<<"root">>, TRUE, 2),
                            ProgramPred(<<"::", "root">>, TRUE, 1)>>),
      Program("Stateful", <<RootPred, ProgramPred(<<"Foo">>, FALSE, 2)>>) }

\* compile_program: the first predicate of a stateless program, every
\* predicate but the root of a stateful one; an error when one of them does
\* not compile
compile_program(program) ==
    LET attempted == IF program.kind = "Stateless"
                     THEN <<Head(program.preds)>>
                     ELSE SelectSeq(program.preds, LAMBDA p : p.name /= ROOT_PRED_NAME)
    IN [ok |-> \A i \in DOMAIN attempted : attempted[i].ok,
        kind |-> program.kind,
        predicates |-> [i \in DOMAIN attempted |->
                          [name |-> attempted[i].name, ca |-> attempted[i].ca]],
        salt |-> Salt]

\* format!("{:x}", ..) of a predicate's and of a contract's content address
LowerHexPredicate(ca) == "p" \o ToString(ca)

RECURSIVE LowerHexBytes(_)
LowerHexBytes(bytes) ==
    IF bytes = << >> THEN ""
    ELSE ToString(Head(bytes)) \o "." \o LowerHexBytes(Tail(bytes))

LowerHexContract(ca) == "c" \o LowerHexBytes(ca.addrs) \o "s" \o LowerHexBytes(ca.salt)

\* what a directory and a file just created or truncated hold
DirEntry == [decl |-> "dir", value |-> ""]
EmptyFile == [decl |-> "", value |-> ""]

\* std::fs::create_dir_all on the paths below the temporary directory
create_dir_all(d, path) ==
    [q \in DOMAIN d \cup {SubSeq(path, 1, k) : k \in 2..Len(path)} |->
        IF q \in DOMAIN d THEN d[q] ELSE DirEntry]

Parent(path) == SubSeq(path, 1, Len(path) - 1)

NoErr == [kind |-> "", name |-> ""]

BuildStart ==
    [pc |-> "asm", predicates |-> << >>, salt |-> << >>,
     ca |-> ContractAddr(<< >>, << >>), i |-> 0, lib_entry_point |-> << >>,
     err |-> NoErr]

LibInit ==
    /\ programs \in [Builders -> Programs]
    /\ builds = [b \in Builders |-> BuildStart]
    /\ disk = EmptyFn
    /\ BuildIdle
    /\ AsmIdle
    /\ ScalIdle
    /\ SymIdle
    /\ ProgIdle
    /\ ReplIdle
    /\ IterIdle

\* the directory name and the predicate under way of build b
HexOf(b) == LowerHexContract(builds[b].ca)
SubmodOf(b) == builds[b].predicates[builds[b].i]

\* build_pkg 338-362: compile_program, the predicates' addresses and the
\* contract's address
CompileProgram(b) ==
    /\ builds[b].pc = "asm"
    /\ \E out \in {compile_program(programs[b])} :
          builds' = [builds EXCEPT ![b] =
             IF out.ok
             THEN [@ EXCEPT !.pc = "temp_dir",
                            !.predicates = out.predicates,
                            !.salt = out.salt,
                            !.ca = ContractAddr(out.predicates, out.salt)]
             ELSE [@ EXCEPT !.pc = "err", !.err = [kind |-> "AsmGen", name |-> ""]]]
    /\ UNCHANGED <<programs, disk>>
    /\ UNCHANGED nonLibVars

\* contract_dep_lib 261-262: create_dir_all(&temp_dir)
CreateTempDir(b) ==
    /\ builds[b].pc = "temp_dir"
    /\ disk' = create_dir_all(disk, TempDir(HexOf(b)))
    /\ builds' = [builds EXCEPT ![b].pc = "lib_create"]
    /\ UNCHANGED programs
    /\ UNCHANGED nonLibVars

\* contract_dep_lib 267: std::fs::write(&lib_path, ..) creates or truncates
CreateLib(b) ==
    /\ builds[b].pc = "lib_create"
    /\ disk' = FnPut(disk, LibPath(HexOf(b)), EmptyFile)
    /\ builds' = [builds EXCEPT ![b].pc = "lib_write"]
    /\ UNCHANGED programs
    /\ UNCHANGED nonLibVars

\* contract_dep_lib 265-267: std::fs::write(&lib_path, ..) writes the bytes
WriteLib(b) ==
    /\ builds[b].pc = "lib_write"
    /\ disk' = FnPut(disk, LibPath(HexOf(b)), AddressSrc(HexOf(b)))
    /\ builds' = [builds EXCEPT ![b].pc = "submod_dir", ![b].i = 1]
    /\ UNCHANGED programs
    /\ UNCHANGED nonLibVars

\* contract_dep_lib 270-282: the submodule path and create_dir_all of its
\* parent
CreateSubmodDir(b) ==
    /\ builds[b].pc = "submod_dir"
    /\ builds[b].i <= Len(builds[b].predicates)
    /\ disk' = create_dir_all(disk, Parent(SubmodPath(HexOf(b), SubmodOf(b).name)))
    /\ builds' = [builds EXCEPT ![b].pc = "submod_create"]
    /\ UNCHANGED programs
    /\ UNCHANGED nonLibVars

\* contract_dep_lib 283: std::fs::write(&submod_path, ..) creates or truncates
CreateSubmod(b) ==
    /\ builds[b].pc = "submod_create"
    /\ disk' = FnPut(disk, SubmodPath(HexOf(b), SubmodOf(b).name), EmptyFile)
    /\ builds' = [builds EXCEPT ![b].pc = "submod_write"]
    /\ UNCHANGED programs
    /\ UNCHANGED nonLibVars

\* contract_dep_lib 271, 283: std::fs::write(&submod_path, ..) writes the bytes
WriteSubmod(b) ==
    /\ builds[b].pc = "submod_write"
    /\ disk' = FnPut(disk, SubmodPath(HexOf(b), SubmodOf(b).name),
                     AddressSrc(LowerHexPredicate(SubmodOf(b).ca)))
    /\ builds' = [builds EXCEPT ![b].pc = "submod_dir", ![b].i = @ + 1]
    /\ UNCHANGED programs
    /\ UNCHANGED nonLibVars

\* contract_dep_lib 286 and build_pkg 365-366: Ok(lib_path) becomes the
\* contract's lib_entry_point
ReturnLibPath(b) ==
    /\ builds[b].pc = "submod_dir"
    /\ builds[b].i > Len(builds[b].predicates)
    /\ builds' = [builds EXCEPT ![b].pc = "ok",
                                ![b].lib_entry_point = LibPath(HexOf(b))]
    /\ UNCHANGED <<programs, disk>>
    /\ UNCHANGED nonLibVars

\* a file-system call of contract_dep_lib fails: `?` returns the error and
\* build_pkg 367-370 wraps it with the package's name
IoError(b) ==
    /\ \/ builds[b].pc \in {"temp_dir", "lib_create", "lib_write",
                            "submod_create", "submod_write"}
       \/ builds[b].pc = "submod_dir" /\ builds[b].i <= Len(builds[b].predicates)
    /\ builds' = [builds EXCEPT ![b].pc = "err",
                                ![b].err = [kind |-> "ContractLibrary",
                                            name |-> PkgName(b)]]
    /\ UNCHANGED <<programs, disk>>
    /\ UNCHANGED nonLibVars

LibNext ==
    \E b \in Builders :
       \/ CompileProgram(b) \/ CreateTempDir(b) \/ CreateLib(b) \/ WriteLib(b)
       \/ CreateSubmodDir(b) \/ CreateSubmod(b) \/ WriteSubmod(b)
       \/ ReturnLibPath(b) \/ IoError(b)

SpecLib == LibInit /\ [][LibNext]_vars

(***************************************************************************)
(* Claims about content addresses and the dependency library.              *)
(***************************************************************************)

\* build b has compiled its program and holds the contract's address
HasAddress(b) == builds[b].pc \notin {"asm", "err"} \/ builds[b].err.kind = "ContractLibrary"

\* t lists the elements of s in some order
IsPermutation(s, t) ==
    /\ Len(s) = Len(t)
    /\ \E f \in [DOMAIN s -> DOMAIN s] :
          /\ \A i, j \in DOMAIN s : i /= j => f[i] /= f[j]
          /\ \A i \in DOMAIN s : t[i] = s[f[i]]

AddressesOf(b) == [i \in DOMAIN builds[b].predicates |-> builds[b].predicates[i].ca]

RanAlone(b) ==
    /\ builds[b].pc = "ok"
    /\ \A c \in Builders \ {b} : builds[c].pc \in {"asm", "temp_dir"}
    /\ \A c \in Builders \ {b} : builds[c].pc = "temp_dir" => HexOf(c) /= HexOf(b)

\* the segments of a name between its `::`
NameSegments(name) == SelectSeq(name, LAMBDA tok : tok /= "::")

\* the file C19 names for the predicate called name, below the directory dir
FileOfName(dir, name) ==
    IF name = << >>
    THEN dir \o <<"root.pnt">>
    ELSE dir \o SubSeq(NameSegments(name), 1, Len(NameSegments(name)) - 1)
             \o <<NameSegments(name)[Len(NameSegments(name))] \o ".pnt">>

\* the text `const ADDRESS: b256 = 0x<hex>;`
Declares(file, hex) == file.decl = "const ADDRESS: b256" /\ file.value = hex

\* what C19 says of the files of build b
DepLibWritten(b) ==
    LET dir == <<"tmp", HexOf(b)>>
    IN /\ builds[b].lib_entry_point = dir \o <<"lib.pnt">>
       /\ dir \o <<"lib.pnt">> \in DOMAIN disk
       /\ Declares(disk[dir \o <<"lib.pnt">>], HexOf(b))
       /\ \A i \in DOMAIN builds[b].predicates :
             LET p == builds[b].predicates[i]
             IN /\ FileOfName(dir, p.name) \in DOMAIN disk
                /\ Declares(disk[FileOfName(dir, p.name)], LowerHexPredicate(p.ca))
                /\ p.name = <<"a", "::", "b", "::", "c">> =>
                      /\ dir \o <<"a", "b", "c.pnt">> \in DOMAIN disk
                      /\ disk[dir \o <<"a">>] = DirEntry
                      /\ disk[dir \o <<"a", "b">>] = DirEntry

\* an error of contract_dep_lib is reported as ContractLibrary with the
\* package's name
IoErrorsReported ==
    \A b \in Builders :
       builds[b].pc = "err" /\ builds[b].predicates /= << >> =>
          builds[b].err = [kind |-> "ContractLibrary", name |-> PkgName(b)]

\* C19 as stated: a build that ran alone has written, under <tmp>/<hex of
\* the contract address>/, lib.pnt declaring the contract's address and for
\* each predicate the file named after the segments of its name (root.pnt
\* for the nameless one) declaring the predicate's address, and has returned
\* the path of lib.pnt; a failing file-system call is reported as
\* ContractLibrary with the package's name.
CE_C19_AsStated ==
    /\ \A b \in Builders : RanAlone(b) => DepLibWritten(b)
    /\ IoErrorsReported

\* C19 for contracts without a predicate named lib: none whose last
\* segment is lib and none with an empty segment before it
T_C19_NoPredicateNamedLib ==
    /\ \A b \in Builders :
          /\ RanAlone(b)
          /\ \A i \in DOMAIN builds[b].predicates :
                /\ builds[b].predicates[i].name /= <<"lib">>
                /\ builds[b].predicates[i].name = << >>
                     \/ Head(builds[b].predicates[i].name) /= "::"
          => DepLibWritten(b)
    /\ IoErrorsReported

\* C19 witness: a build that ran alone has written a/b/c.pnt
W_C19_NestedModuleWritten ==
    \E b \in Builders :
       /\ RanAlone(b)
       /\ <<"tmp", HexOf(b), "a", "b", "c.pnt">> \in DOMAIN disk
       /\ <<"tmp", HexOf(b), "Foo.pnt">> \in DOMAIN disk

\* the disk after the writes of contract_dep_lib for the predicates from
\* the i-th on
RECURSIVE SubmodsWritten(_, _, _, _)
SubmodsWritten(d, hex, predicates, i) ==
    IF i > Len(predicates) THEN d
    ELSE SubmodsWritten(
           FnPut(create_dir_all(d, Parent(SubmodPath(hex, predicates[i].name))),
                 SubmodPath(hex, predicates[i].name),
                 AddressSrc(LowerHexPredicate(predicates[i].ca))),
           hex, predicates, i + 1)

\* the disk build b leaves when it runs alone on an empty temporary directory
AloneDisk(b) ==
    SubmodsWritten(
      FnPut(create_dir_all(EmptyFn, TempDir(HexOf(b))), LibPath(HexOf(b)),
            AddressSrc(HexOf(b))),
      HexOf(b), builds[b].predicates, 1)

BothDone == \A b \in Builders : builds[b].pc = "ok"

\* C20 as stated: when two builds with the same contract address have both
\* ended, the directory holds what either of them alone would have written.
CE_C20_AsStated ==
    BothDone /\ builds[1].ca = builds[2].ca =>
       Let(AloneDisk(1), LAMBDA d1 : Let(AloneDisk(2), LAMBDA d2 :
           disk = d1 /\ disk = d2))

\* C20 for two builds that also agree on the names of their predicates
T_C20_SameNames ==
    /\ BothDone
    /\ builds[1].ca = builds[2].ca
    /\ Range(builds[1].predicates) = Range(builds[2].predicates)
    => Let(AloneDisk(1), LAMBDA d1 : Let(AloneDisk(2), LAMBDA d2 :
           disk = d1 /\ disk = d2))

\* C20 witness: two builds of the same predicates, declared in opposite
\* orders, have both ended
W_C20_BothEnded ==
    /\ BothDone
    /\ Len(builds[1].predicates) = 2
    /\ builds[2].predicates = <<builds[1].predicates[2], builds[1].predicates[1]>>

\* the names of the predicates of build b are pairwise distinct
DistinctNames(b) ==
    \A i, j \in DOMAIN builds[b].predicates :
       i /= j => builds[b].predicates[i].name /= builds[b].predicates[j].name

\* the file contract_dep_lib writes for the i-th predicate of build b
WrittenPath(b, i) == SubmodPath(HexOf(b), builds[b].predicates[i].name)

\* no two predicates of build b are written to the same path and none is
\* written to lib.pnt
PathsApart(b) ==
    /\ \A i, j \in DOMAIN builds[b].predicates :
          i /= j => WrittenPath(b, i) /= WrittenPath(b, j)
    /\ \A i \in DOMAIN builds[b].predicates : WrittenPath(b, i) /= LibPath(HexOf(b))

\* every constant build b has written is still readable
AllReadable(b) ==
    /\ LibPath(HexOf(b)) \in DOMAIN disk
    /\ Declares(disk[LibPath(HexOf(b))], HexOf(b))
    /\ \A i \in DOMAIN builds[b].predicates :
          /\ WrittenPath(b, i) \in DOMAIN disk
          /\ Declares(disk[WrittenPath(b, i)],
                      LowerHexPredicate(builds[b].predicates[i].ca))

\* the last predicate of build b written to path, 0 when there is none
LastWriter(b, path) ==
    LET writers == {0} \cup {i \in DOMAIN builds[b].predicates : WrittenPath(b, i) = path}
    IN CHOOSE i \in writers : \A j \in writers : j <= i

\* C30 as stated: after contract_dep_lib returns Ok for a contract whose
\* predicates have pairwise distinct names, lib.pnt declares the contract's
\* address and each predicate's file declares that predicate's address: no
\* two predicates are written to the same path and none to lib.pnt.
CE_C30_AsStated ==
    \A b \in Builders :
       RanAlone(b) /\ DistinctNames(b) => PathsApart(b) /\ AllReadable(b)

\* C30, what holds: every path holds what was written to it last, so the
\* constants are all readable exactly when the paths are apart.
T_C30_LastWriteWins ==
    \A b \in Builders :
       RanAlone(b) =>
          /\ PathsApart(b) <=> AllReadable(b)
          /\ \A i \in DOMAIN builds[b].predicates :
                /\ WrittenPath(b, i) \in DOMAIN disk
                /\ Declares(disk[WrittenPath(b, i)],
                            LowerHexPredicate(
                              builds[b].predicates[LastWriter(b, WrittenPath(b, i))].ca))
          /\ Declares(disk[LibPath(HexOf(b))],
                      IF LastWriter(b, LibPath(HexOf(b))) = 0
                      THEN HexOf(b)
                      ELSE LowerHexPredicate(
                             builds[b].predicates[LastWriter(b, LibPath(HexOf(b)))].ca))

\* C30 witness: a build that ran alone has written the predicates root and
\* ::root, and root.pnt declares the address of ::root only
W_C30_RootOverwritten ==
    \E b \in Builders :
       /\ RanAlone(b)
       /\ DistinctNames(b)
       /\ Len(builds[b].predicates) = 2
       /\ WrittenPath(b, 1) = WrittenPath(b, 2)
       /\ WrittenPath(b, 1) = <<"tmp", HexOf(b), "root.pnt">>
       /\ ~Declares(disk[WrittenPath(b, 1)], LowerHexPredicate(builds[b].predicates[1].ca))

(***************************************************************************)
(* The type maps next to the expression and variable tables                *)
(* (yurtc/src/intermediate/transform/scalarize.rs)                         *)
(***************************************************************************)
\* a lowering step has returned Ok, or none has run yet
NoStepFailed == sc_pc \notin {"idle", "Err", "panic"}

\* expression k compares two elements of arrays, each an element access or,
\* once its array is scalarized, the path of the element's variable
ComparesElements(ii, k) ==
    /\ ii.exprs[k].tag = "BinaryOp"
    /\ ii.exprs[k].op \in {"Equal", "NotEqual"}
    /\ ii.exprs[k].a \in DOMAIN ii.exprs
    /\ ii.exprs[k].b \in DOMAIN ii.exprs
    /\ ii.exprs[ii.exprs[k].a].tag \in {"ArrayElementAccess", "PathByKey"}
    /\ ii.exprs[ii.exprs[k].b].tag \in {"ArrayElementAccess", "PathByKey"}

Untyped(ii) == DOMAIN ii.exprs \ DOMAIN ii.expr_types

\* C25 as stated: after each lowering step of scalarization returned Ok,
\* every expression key has an entry in the expression type map, the created
\* ones included, no entry is left for a removed key, and likewise for the
\* variable keys and the variable type map.
CE_C25_AsStated ==
    NoStepFailed =>
        /\ DOMAIN intent.expr_types = DOMAIN intent.exprs
        /\ DOMAIN intent.var_types = DOMAIN intent.vars

\* what the steps do: the variable type map follows the variables, no type
\* entry outlives its expression, and the only expressions without a type
\* are comparisons of two array elements.
T_C25_ButElementCompares ==
    NoStepFailed =>
        /\ DOMAIN intent.var_types = DOMAIN intent.vars
        /\ DOMAIN intent.expr_types \subseteq DOMAIN intent.exprs
        /\ \A k \in Untyped(intent) : ComparesElements(intent, k)

\* scalarize returned Ok and left the comparison of the first elements of
\* two arrays without a type, while the && above it has one
W_C25_UntypedElementCompare ==
    /\ sc_pc = "Ok"
    /\ \E k \in Untyped(intent), c \in DOMAIN intent.expr_types :
          /\ intent.exprs[c].tag = "BinaryOp"
          /\ intent.exprs[c].op = "LogicalAnd"
          /\ intent.exprs[c].a = k


(***************************************************************************)
(* Termination of scalarize by its fixed points.                           *)
(***************************************************************************)
\* scalarize has returned: Ok(()), Err(..) or a panic
ScalarizeReturned == sc_pc \in {"Ok", "Err", "panic"}

\* scalarize runs to its end: the compiler is one sequential thread, so a
\* call that has not returned takes its next step.  This is weak fairness
\* of ScalNext, written out: every function of a step is total, so a step
\* is enabled exactly when scalarize has not returned.
SpecScalFair ==
    /\ ScalInit
    /\ [][ScalNext]_vars
    /\ ([]<>ScalarizeReturned \/ []<><<ScalNext>>_vars)

\* the nesting of a type: one for each array and tuple in it, the element
\* type of an array counted once for every element
RECURSIVE Nesting(_)
Nesting(ty) ==
    IF is_array(ty)
    THEN 1 + (IF ty.size = None THEN 1 ELSE ty.size) * Nesting(ty.el[1])
    ELSE IF is_tuple(ty)
    THEN 1 + SeqSum([i \in DOMAIN ty.fields |-> Nesting(ty.fields[i].ty)])
    ELSE 0

\* the total nesting of the variables of ii with keys in S
NestingOfVars(ii, S) ==
    Let(KeysInOrder(S \cap DOMAIN ii.var_types), LAMBDA keys :
        SeqSum([i \in DOMAIN keys |-> Nesting(ii.var_types[keys[i]])]))

\* the variables still to be scalarized: all but the tuple variables
\* already split, which stay in the table to the end of scalarize_tuples
VarNesting(ii, old_vars) == NestingOfVars(ii, DOMAIN ii.vars \ Range(old_vars))

\* the comparisons of ii by == or != with an operand of array or tuple type
AggregateCompares(ii) ==
    { k \in DOMAIN ii.exprs :
        /\ ii.exprs[k].tag = "BinaryOp"
        /\ ii.exprs[k].op \in {"Equal", "NotEqual"}
        /\ ii.exprs[k].a \in DOMAIN ii.expr_types
        /\ Nesting(ii.expr_types[ii.exprs[k].a]) > 0 }

CompareNesting(ii) ==
    Let(KeysInOrder(AggregateCompares(ii)), LAMBDA keys :
        SeqSum([i \in DOMAIN keys |-> Nesting(ii.expr_types[ii.exprs[keys[i]].a])]))

\* a step of the loop at position p reported a modification and the loop
\* goes on; the loop at p ended with a step that reported none
StepModified(p) == sc_pc = p /\ sc_pc' = p
LoopEnded(p) == sc_pc = p /\ sc_pc' \notin {p, "Err", "panic"}

ComparisonLoops == {"lower_array_compares", "lower_tuple_compares"}
VariableLoops == {"scalarize_array", "split_tuple_vars"}

\* every step that reports a modification decreases the measure of its
\* loop, the variables being measured by nesting_of_vars, and every loop
\* ends with a step that changes nothing, far below the cap
Decreases(nesting_before, nesting_after) ==
    /\ \A p \in ComparisonLoops :
          StepModified(p) => CompareNesting(intent') < CompareNesting(intent)
    /\ \A p \in VariableLoops : StepModified(p) => nesting_after < nesting_before
    /\ \A p \in ComparisonLoops \cup VariableLoops : LoopEnded(p) => intent' = intent
    /\ loop_check'.inner < LoopCheckLimit /\ loop_check'.outer < LoopCheckLimit

\* C28 as stated: scalarize eventually terminates; each successful
\* scalarize_array or split_tuple_vars step strictly decreases the total
\* nesting of the aggregate-typed variables, each comparison-lowering step
\* the nesting of the aggregate comparisons, and the last step of every loop
\* reports no modification, so the loops stop at a fixed point and not at
\* the cap.
CE_C28_AsStated ==
    /\ [][Decreases(NestingOfVars(intent, DOMAIN intent.vars),
                    NestingOfVars(intent', DOMAIN intent'.vars))]_vars
    /\ <>ScalarizeReturned

\* C28, amended: as stated, with the nesting of the variables taken over the
\* variables not yet split: a tuple variable that split_tuple_vars has split
\* stays in the table, next to the variables of its fields, until
\* scalarize_tuples removes it.
T_C28_TerminatesByFixedPoint ==
    /\ [][Decreases(VarNesting(intent, old_tuple_vars),
                    VarNesting(intent', old_tuple_vars'))]_vars
    /\ <>ScalarizeReturned

\* C28 witness: scalarize returned Ok after a second round of its outer
\* loop, with no array or tuple variable left and the split ones removed
W_C28_SecondRoundReachedFixedPoint ==
    /\ sc_pc = "Ok"
    /\ loop_check.outer >= 1
    /\ VarNesting(intent, << >>) = 0
    /\ CompareNesting(intent) = 0


(***************************************************************************)
(* The meaning of a lowered array comparison.                             *)
(***************************************************************************)
\* the values of the declared arrays a, b (int[ArrayLen]) and m
\* (int[ArrayLen][ArrayLen]): every choice of element values
ElementValues == {0, 1}
ArrayValues == [0..(ArrayLen - 1) -> ElementValues]
Envs ==
    { [a |-> va, b |-> vb, m |-> vm] :
        va \in ArrayValues, vb \in ArrayValues,
        vm \in [0..(ArrayLen - 1) -> ArrayValues] }

\* the value of expression k of ii when the arrays have the values of env:
\* two arrays are equal when every pair of their elements is equal and
\* differ when at least one pair differs
RECURSIVE ValueOf(_, _, _)
ValueOf(ii, k, env) ==
    CASE ii.exprs[k].tag = "Immediate" -> ii.exprs[k].val
      [] ii.exprs[k].tag = "PathByName" -> env[ii.exprs[k].name]
      [] ii.exprs[k].tag = "ArrayElementAccess" ->
            ValueOf(ii, ii.exprs[k].a, env)[ValueOf(ii, ii.exprs[k].b, env)]
      [] ii.exprs[k].tag = "BinaryOp" /\ ii.exprs[k].op = "Equal" ->
            ValueOf(ii, ii.exprs[k].a, env) = ValueOf(ii, ii.exprs[k].b, env)
      [] ii.exprs[k].tag = "BinaryOp" /\ ii.exprs[k].op = "NotEqual" ->
            ValueOf(ii, ii.exprs[k].a, env) /= ValueOf(ii, ii.exprs[k].b, env)
      [] ii.exprs[k].tag = "BinaryOp" /\ ii.exprs[k].op = "LogicalAnd" ->
            ValueOf(ii, ii.exprs[k].a, env) /\ ValueOf(ii, ii.exprs[k].b, env)

\* the comparisons of arrays by op in S that expression k of ii is made of:
\* k itself, or the operands of a chain of &&
RECURSIVE ArrayComparesIn(_, _)
ArrayComparesIn(ii, k) ==
    IF IsArrayCompare(ii, k) THEN {k}
    ELSE IF ii.exprs[k].tag = "BinaryOp" /\ ii.exprs[k].op = "LogicalAnd"
    THEN ArrayComparesIn(ii, ii.exprs[k].a) \cup ArrayComparesIn(ii, ii.exprs[k].b)
    ELSE {}

\* constraint j compares arrays by operators of ops only, and a step of
\* lower_array_compares lowered it
Lowered(j, ops) ==
    /\ StepModified("lower_array_compares")
    /\ ArrayComparesIn(intent, intent.constraints[j]) /= {}
    /\ \A k \in ArrayComparesIn(intent, intent.constraints[j]) : intent.exprs[k].op \in ops

\* the lowered constraint j has the value of the comparison it replaces,
\* whatever the elements of the arrays
MeaningPreserved(j) ==
    \A env \in Envs :
       ValueOf(intent', intent'.constraints[j], env)
         = ValueOf(intent, intent.constraints[j], env)

\* C29 as stated: array-comparison lowering preserves meaning: for arrays of
\* equal size and all element values the lowered expression has the value of
\* the original comparison, for a == b (every pair of elements equal) and
\* for a != b (at least one pair of elements differs).
CE_C29_AsStated ==
    [][\A j \in DOMAIN intent.constraints :
          Lowered(j, {"Equal", "NotEqual"}) => MeaningPreserved(j)]_vars

\* C29, what holds: the lowering of == preserves meaning; the lowering of
\* a != b of two arrays of elements is true exactly when every pair of
\* elements differs.
T_C29_EqualOnly ==
    [][\A j \in DOMAIN intent.constraints :
          /\ Lowered(j, {"Equal"}) => MeaningPreserved(j)
          /\ ( /\ Lowered(j, {"NotEqual"})
               /\ IsArrayCompare(intent, intent.constraints[j]) )
             => \A env \in Envs :
                   ValueOf(intent', intent'.constraints[j], env)
                     = (\A i \in 0..(ArrayLen - 1) :
                          ValueOf(intent, intent.exprs[intent.constraints[j]].a, env)[i]
                            /= ValueOf(intent, intent.exprs[intent.constraints[j]].b, env)[i])]_vars

\* C29 witness: b != a has been lowered to a chain of && over comparisons
\* by != of the elements
W_C29_NotEqualChain ==
    /\ sc_pc = "lower_array_compares"
    /\ loop_check.inner = 1
    /\ \E j \in DOMAIN intent.constraints :
          /\ intent.exprs[intent.constraints[j]].tag = "BinaryOp"
          /\ intent.exprs[intent.constraints[j]].op = "LogicalAnd"
          /\ intent.exprs[intent.exprs[intent.constraints[j]].a].op = "NotEqual"
          /\ intent.exprs[intent.exprs[intent.constraints[j]].b].op = "NotEqual"


(***************************************************************************)
(* THE SYMBOL TABLE (pintc/src/predicate.rs, SymbolTable)                  *)
(***************************************************************************)
MaxDecls == 3       \* insertions made into one table
MaxSpan == 2        \* spans range over 1..MaxSpan

Spans == 1..MaxSpan

\* Option<&str>
NoScope == << >>
Scope(ls) == <<ls>>

Ident(name, span) == [name |-> name, span |-> span]

\* module prefixes, local scopes and names; the prefix Foo:: with no scope
\* and the empty prefix with the scope Foo give the same full name
ModPrefixes == {"", "Foo::"}
LocalScopes == {NoScope, Scope("Foo")}
Idents == { Ident("x", sp) : sp \in Spans }

\* SymbolTable::make_full_symbol
make_full_symbol(mod_prefix, local_scope, name) ==
    LET local_scope_str == IF local_scope = NoScope THEN ""
                           ELSE local_scope[1] \o "::"
    IN mod_prefix \o local_scope_str \o name.name

NameClash(sym, span, prev_span) ==
    [sym |-> sym, span |-> span, prev_span |-> prev_span]

SymResult(tbl, handler, st, full_name) ==
    [symbols |-> tbl, handler |-> handler, ret |-> [st |-> st, full_name |-> full_name]]

\* SymbolTable::add_symbol that reports the span handed in
add_symbol_DeclSpan(tbl, handler, mod_prefix, local_scope, name, span) ==
    LET full_name == make_full_symbol(mod_prefix, local_scope, name)
    IN IF full_name \in DOMAIN tbl
       THEN SymResult(tbl, Append(handler, NameClash(name.name, span, tbl[full_name])),
                      "err", full_name)
       ELSE SymResult(FnPut(tbl, full_name, span), handler, "ok", full_name)

\* SymbolTable::add_symbol
add_symbol(tbl, handler, mod_prefix, local_scope, name, span) ==
    LET full_name == make_full_symbol(mod_prefix, local_scope, name)
    IN IF full_name \in DOMAIN tbl
       THEN SymResult(tbl,
                      Append(handler, NameClash(name.name, name.span, tbl[full_name])),
                      "err", full_name)
       ELSE SymResult(FnPut(tbl, full_name, span), handler, "ok", full_name)

\* SymbolTable::add_symbol_no_clash: entry(full_name).or_insert(span)
add_symbol_no_clash(tbl, handler, mod_prefix, local_scope, name, span) ==
    LET full_name == make_full_symbol(mod_prefix, local_scope, name)
    IN SymResult(IF full_name \in DOMAIN tbl THEN tbl ELSE FnPut(tbl, full_name, span),
                 handler, "ok", full_name)

Decl(op, mod_prefix, local_scope, name, span) ==
    [op |-> op, mod_prefix |-> mod_prefix, local_scope |-> local_scope,
     name |-> name, span |-> span]

SymInit ==
    /\ symbols = EmptyFn
    /\ sym_handler = << >>
    /\ sym_ret = [st |-> "new", full_name |-> ""]
    /\ sym_decls = << >>
    /\ BuildIdle
    /\ AsmIdle
    /\ ScalIdle
    /\ LibIdle
    /\ ProgIdle
    /\ ReplIdle
    /\ IterIdle

Returned(op, r, mod_prefix, local_scope, name, span) ==
    /\ symbols' = r.symbols
    /\ sym_handler' = r.handler
    /\ sym_ret' = r.ret
    /\ sym_decls' = Append(sym_decls, Decl(op, mod_prefix, local_scope, name, span))
    /\ UNCHANGED nonSymVars

\* a call of add_symbol
AddSymbol ==
    /\ Len(sym_decls) < MaxDecls
    /\ \E mod_prefix \in ModPrefixes, local_scope \in LocalScopes,
          name \in Idents, span \in Spans :
          \E r \in {add_symbol(symbols, sym_handler, mod_prefix, local_scope,
                               name, span)} :
             Returned("add_symbol", r, mod_prefix, local_scope, name, span)

\* a call of add_symbol_no_clash
AddSymbolNoClash ==
    /\ Len(sym_decls) < MaxDecls
    /\ \E mod_prefix \in ModPrefixes, local_scope \in LocalScopes,
          name \in Idents, span \in Spans :
          \E r \in {add_symbol_no_clash(symbols, sym_handler, mod_prefix,
                                        local_scope, name, span)} :
             Returned("add_symbol_no_clash", r, mod_prefix, local_scope, name, span)

SymNext == AddSymbol \/ AddSymbolNoClash

SpecSym == SymInit /\ [][SymNext]_vars

\* ---- the claim ----
FullNameOf(dcl) == make_full_symbol(dcl.mod_prefix, dcl.local_scope, dcl.name)

\* the insertions of the full name fn among the first k
DeclsOf(fn, k) == { i \in 1..k : FullNameOf(sym_decls[i]) = fn }

Min(S) == CHOOSE x \in S : \A y \in S : x <= y

LastDecl == sym_decls[Len(sym_decls)]
Earlier == DeclsOf(FullNameOf(LastDecl), Len(sym_decls) - 1)
FirstDecl == sym_decls[Min(Earlier)]

\* the table holds the span of the first insertion of every full name
\* inserted, and nothing else
FirstSpansRecorded ==
    /\ DOMAIN symbols = { FullNameOf(sym_decls[i]) : i \in DOMAIN sym_decls }
    /\ \A fn \in DOMAIN symbols : symbols[fn] = sym_decls[Min(DeclsOf(fn, Len(sym_decls)))].span

\* the insertions add_symbol refused, in order
Refused ==
    SelectSeq([i \in DOMAIN sym_decls |-> i],
              LAMBDA i : /\ sym_decls[i].op = "add_symbol"
                         /\ DeclsOf(FullNameOf(sym_decls[i]), i - 1) /= {})

\* the last insertion behaved as said, the clash carrying clash_span
InsertionLaw(clash_span) ==
    sym_decls /= << >> =>
      /\ sym_ret.full_name = FullNameOf(LastDecl)
      /\ FirstSpansRecorded
      /\ Len(sym_handler) = Len(Refused)
      /\ IF LastDecl.op = "add_symbol" /\ Earlier /= {}
         THEN /\ sym_ret.st = "err"
              /\ sym_handler[Len(sym_handler)] =
                    NameClash(LastDecl.name.name, clash_span, FirstDecl.span)
         ELSE sym_ret.st = "ok"

\* C23 as stated: add_symbol of a name whose full name is in the table fails
\* with NameClash carrying the new declaration's span as span and the span
\* of the first declaration of the name as prev_span, and leaves the table
\* unchanged; of an absent name it succeeds and records it;
\* add_symbol_no_clash never fails and never replaces a recorded span.
CE_C23_AsStated == InsertionLaw(LastDecl.span)

\* what add_symbol does: the clash carries the span of the identifier handed
\* in, which need not be the span handed in to be recorded; all the rest is
\* as stated.
T_C23_IdentSpan == InsertionLaw(LastDecl.name.span)

\* a third declaration of one full name, made through another prefix and
\* scope, is refused and reports the first
W_C23_ThirdReportsFirst ==
    /\ Len(sym_decls) = 3
    /\ Len(sym_handler) = 2
    /\ DOMAIN symbols = {"Foo::x"}
    /\ sym_decls[1].mod_prefix /= sym_decls[3].mod_prefix
    /\ sym_decls[2].span /= sym_decls[1].span
    /\ sym_handler[2].prev_span = sym_decls[1].span
    /\ LastDecl.name.span /= LastDecl.span

(***************************************************************************)
(* compile_program (pintc/src/asm_gen.rs) predicate by predicate, with the *)
(* errors of each predicate_to_asm collected by the handler.               *)
(***************************************************************************)
MaxPreds == 2       \* predicates of a program next to the root

\* AsmBuilder and the scoped handler while predicate_to_asm runs
Builder(st, s, c, errors) == [st |-> st, s_asm |-> s, c_asm |-> c, errors |-> errors]

AsmError(kind, index) == [kind |-> kind, index |-> index]

\* the two loops of predicate_to_asm from item i on: the result of
\* compile_state / compile_constraint is dropped (`let _ =`), its error
\* stays in the handler, a panic unwinds
RECURSIVE predicate_to_asm_from(_, _, _)
predicate_to_asm_from(pred, i, b) ==
    LET ns == Len(pred.states)
        After(r, kind, index) ==
            Builder(IF r.st = "panic" THEN "panic" ELSE b.st,
                    IF kind = "state" /\ r.st = "ok" THEN Append(b.s_asm, r.asm)
                    ELSE b.s_asm,
                    IF kind = "constraint" /\ r.st = "ok" THEN Append(b.c_asm, r.asm)
                    ELSE b.c_asm,
                    IF r.st = "err" THEN Append(b.errors, AsmError(kind, index))
                    ELSE b.errors)
    IN IF b.st = "panic" \/ i >= ns + Len(pred.constraints)
       THEN b
       ELSE IF i < ns
       THEN Let(compile_state(pred.states[i + 1], pred),
                LAMBDA r : predicate_to_asm_from(pred, i + 1, After(r, "state", i + 1)))
       ELSE Let(compile_constraint(pred.constraints[i - ns + 1], pred),
                LAMBDA r : predicate_to_asm_from(pred, i + 1,
                                                 After(r, "constraint", i - ns + 1)))

\* predicate_to_asm: Err(handler.cancel()) when the handler has errors, else
\* the CompiledPredicate of the two streams
predicate_to_asm(pred) ==
    Let(predicate_to_asm_from(pred, 0, Builder("run", << >>, << >>, << >>)),
        LAMBDA b : [b EXCEPT !.st = IF b.st = "panic" THEN "panic"
                                     ELSE IF b.errors /= << >> THEN "err" ELSE "ok"])

\* handler.scope(f) given what f did in the fresh scope: the errors of the
\* scope are appended to the handler, and the result is f's unless the scope
\* has errors
scope(handler, res) ==
    [handler |-> handler \o res.errors,
     st |-> IF res.st = "ok" /\ res.errors /= << >> THEN "err" ELSE res.st,
     value |-> res]

CompiledPredicate(res) == [state_read |-> res.s_asm, constraints |-> res.c_asm]

Locals(names, predicates, handler, called, st) ==
    [names |-> names, predicates |-> predicates, handler |-> handler, log |-> called,
     st |-> st]

\* the body of the loops that gives up at the first predicate that failed
compile_entry_FailFast(loc, name, pred) ==
    IF loc.handler /= << >> THEN loc
    ELSE Let(scope(loc.handler, predicate_to_asm(pred)), LAMBDA sc :
             IF sc.st = "ok"
             THEN Locals(Append(loc.names, name),
                         Append(loc.predicates, CompiledPredicate(sc.value)),
                         sc.handler, Append(loc.log, name), "loop")
             ELSE Locals(loc.names, loc.predicates, sc.handler, Append(loc.log, name),
                         IF sc.st = "panic" THEN "panic" ELSE "loop"))

\* `if let Ok(predicate) = handler.scope(|handler| predicate_to_asm(handler,
\* pred)) { names.push(name); predicates.push(predicate) }`
compile_entry(loc, name, pred) ==
    Let(scope(loc.handler, predicate_to_asm(pred)), LAMBDA sc :
        IF sc.st = "ok"
        THEN Locals(Append(loc.names, name),
                    Append(loc.predicates, CompiledPredicate(sc.value)),
                    sc.handler, Append(loc.log, name), "loop")
        ELSE Locals(loc.names, loc.predicates, sc.handler, Append(loc.log, name),
                    IF sc.st = "panic" THEN "panic" ELSE "loop"))

\* ---- the programs ----
Entry(name, pred) == [name |-> name, pred |-> pred]

\* predicates that compile, that leave one error and two errors in the
\* handler, and one the generator aborts on
GoodPreds ==
    { Pred(<< >>, <<Path("a", TBool)>>),
      Pred(<<StateVar("s0", StorageAccess("x", TInt))>>,
           <<Binary("Equal", Path("x", TInt), ImmInt(MaxLit))>>) }
FailingPreds ==
    { Pred(<< >>, <<Path("undeclared", TBool)>>),
      Pred(<< >>, <<Path("undeclared", TBool), Path("a", TBool),
                    Intrinsic("__this_contract_address", << >>, TB256)>>) }
AbortingPreds == { Pred(<< >>, <<ImmBool(TRUE)>>) }
EntryPreds == GoodPreds \cup FailingPreds \cup AbortingPreds

EntryNames == {<<"Foo">>, <<"Bar">>}

\* program.preds in iteration order: the root anywhere among up to MaxPreds
\* predicates of distinct names
PredLists ==
    { ps \in UNION { [1..len -> { Entry(nm, p) : nm \in EntryNames \cup {ROOT_PRED_NAME},
                                                   p \in EntryPreds }] :
                       len \in 1..(MaxPreds + 1) } :
        /\ \A i, j \in DOMAIN ps : i /= j => ps[i].name /= ps[j].name
        /\ \E i \in DOMAIN ps : ps[i].name = ROOT_PRED_NAME }

ProgramsToCompile ==
    { Program("Stateful", ps) : ps \in PredLists }
      \cup { Program("Stateless", <<Entry(ROOT_PRED_NAME, p)>>) : p \in EntryPreds }

NoProgram == << >>

ProgInit ==
    /\ cp_program \in ProgramsToCompile
    /\ cp_pc = "loop"
    /\ cp_i = 0
    /\ cp_names = << >>
    /\ cp_predicates = << >>
    /\ cp_handler = << >>
    /\ cp_ret = NoProgram
    /\ cp_log = << >>
    /\ BuildIdle
    /\ AsmIdle
    /\ ScalIdle
    /\ LibIdle
    /\ SymIdle
    /\ ReplIdle
    /\ IterIdle

CpLocals == Locals(cp_names, cp_predicates, cp_handler, cp_log, cp_pc)

SetLocals(loc) ==
    /\ cp_names' = loc.names
    /\ cp_predicates' = loc.predicates
    /\ cp_handler' = loc.handler
    /\ cp_log' = loc.log
    /\ cp_pc' = loc.st

\* ProgramKind::Stateless: the first predicate, whatever its name
CompileStateless ==
    /\ cp_pc = "loop"
    /\ cp_program.kind = "Stateless"
    /\ cp_i = 0
    /\ \E loc \in {compile_entry(CpLocals, cp_program.preds[1].name,
                                 cp_program.preds[1].pred)} : SetLocals(loc)
    /\ cp_i' = Len(cp_program.preds)
    /\ UNCHANGED <<cp_program, cp_ret>>
    /\ UNCHANGED nonProgVars

\* ProgramKind::Stateful: one iteration of `for (name, pred) in
\* program.preds.iter()`
CompileStateful ==
    /\ cp_pc = "loop"
    /\ cp_program.kind = "Stateful"
    /\ cp_i < Len(cp_program.preds)
    /\ LET e == cp_program.preds[cp_i + 1]
       IN IF e.name /= ROOT_PRED_NAME
          THEN \E loc \in {compile_entry(CpLocals, e.name, e.pred)} : SetLocals(loc)
          ELSE UNCHANGED <<cp_names, cp_predicates, cp_handler, cp_log, cp_pc>>
    /\ cp_i' = cp_i + 1
    /\ UNCHANGED <<cp_program, cp_ret>>
    /\ UNCHANGED nonProgVars

\* the end of compile_program: Err(handler.cancel()) when the handler has
\* errors, else the CompiledProgram
ReturnProgram ==
    /\ cp_pc = "loop"
    /\ cp_i = Len(cp_program.preds)
    /\ IF cp_handler /= << >>
       THEN cp_pc' = "Err" /\ cp_ret' = NoProgram
       ELSE /\ cp_pc' = "Ok"
            /\ cp_ret' = <<[kind |-> cp_program.kind, names |-> cp_names,
                            salt |-> Salt, predicates |-> cp_predicates]>>
    /\ UNCHANGED <<cp_program, cp_i, cp_names, cp_predicates, cp_handler, cp_log>>
    /\ UNCHANGED nonProgVars

ProgNext == CompileStateless \/ CompileStateful \/ ReturnProgram

SpecProg == ProgInit /\ [][ProgNext]_vars

\* ---- the claim ----
NonRoot == SelectSeq(cp_program.preds, LAMBDA e : e.name /= ROOT_PRED_NAME)

RECURSIVE ErrorsOf(_)
ErrorsOf(entries) ==
    IF entries = << >> THEN << >>
    ELSE predicate_to_asm(Head(entries).pred).errors \o ErrorsOf(Tail(entries))

CpReturned == cp_pc \in {"Ok", "Err"} /\ cp_program.kind = "Stateful"

\* C24: when compile_program returns on a stateful program, predicate_to_asm
\* was called on every predicate but the root, in program order, and the
\* handler holds the errors of all of them; the result is Ok exactly when
\* none left an error, and then names and predicates are as long as the
\* predicates compiled, names[i] is the name of the predicate compiled into
\* predicates[i], and the root is not among them; otherwise it is an error
\* and no CompiledProgram.
T_C24_EveryPredicateAttempted ==
    CpReturned =>
      /\ cp_log = [i \in DOMAIN NonRoot |-> NonRoot[i].name]
      /\ cp_handler = ErrorsOf(NonRoot)
      /\ (cp_pc = "Ok") = (\A i \in DOMAIN NonRoot :
                              predicate_to_asm(NonRoot[i].pred).st = "ok")
      /\ IF cp_pc = "Ok"
         THEN /\ Len(cp_ret) = 1
              /\ Len(cp_ret[1].names) = Len(NonRoot)
              /\ Len(cp_ret[1].predicates) = Len(NonRoot)
              /\ \A i \in DOMAIN NonRoot :
                    /\ cp_ret[1].names[i] = NonRoot[i].name
                    /\ cp_ret[1].predicates[i] =
                          CompiledPredicate(predicate_to_asm(NonRoot[i].pred))
              /\ ROOT_PRED_NAME \notin Range(cp_ret[1].names)
         ELSE cp_ret = NoProgram

\* C24 witness: the first predicate failed, the second was still compiled
\* and failed with errors of its own; the root, in between, was skipped
W_C24_ErrorsOfBoth ==
    /\ cp_pc = "Err"
    /\ Len(cp_program.preds) = 3
    /\ cp_program.preds[2].name = ROOT_PRED_NAME
    /\ Len(cp_log) = 2
    /\ Len(cp_handler) = 3
    /\ cp_handler[3] = AsmError("constraint", 3)
    /\ cp_names = << >>

(***************************************************************************)
(* Contract::replace_exprs and Predicate::replace_exprs                    *)
(* (pintc/src/predicate.rs)                                                *)
(***************************************************************************)
MaxKeys == 3        \* expression keys of the contract

Keys == 1..MaxKeys

\* a type that holds one expression key, the range of an array
RangeTy(k) == [range |-> k]

\* an expression that holds one nested expression key
NestedExpr(k) == [nested |-> k]

ConstraintDecl(k) == [stmt |-> "Constraint", expr |-> k]

IfDecl(condition, then_block, else_block) ==
    [stmt |-> "If", condition |-> condition, then_block |-> then_block,
     else_block |-> else_block]

MatchDeclBranch(block) == [block |-> block]

MatchDecl(match_expr, match_branches, else_branch) ==
    [stmt |-> "Match", match_expr |-> match_expr, match_branches |-> match_branches,
     else_branch |-> else_branch]

\* `if *expr == old_expr { *expr = new_expr }`
ReplaceKey(k, old_expr, new_expr) == IF k = old_expr THEN new_expr ELSE k

\* Type::replace_type_expr
replace_type_expr(ty, old_expr, new_expr) ==
    [ty EXCEPT !.range = ReplaceKey(@, old_expr, new_expr)]

\* Expr::replace_one_to_one
replace_one_to_one(expr, old_expr, new_expr) ==
    [expr EXCEPT !.nested = ReplaceKey(@, old_expr, new_expr)]

RECURSIVE block_replace_exprs(_, _, _)
RECURSIVE statement_replace_exprs(_, _, _)

\* IfDecl::replace_exprs
if_decl_replace_exprs(if_decl, old_expr, new_expr) ==
    [if_decl EXCEPT
       !.condition = ReplaceKey(@, old_expr, new_expr),
       !.then_block = block_replace_exprs(@, old_expr, new_expr),
       !.else_block = [i \in DOMAIN @ |-> block_replace_exprs(@[i], old_expr, new_expr)]]

\* MatchDecl::replace_exprs
match_decl_replace_exprs(match_decl, old_expr, new_expr) ==
    [match_decl EXCEPT
       !.match_expr = ReplaceKey(@, old_expr, new_expr),
       !.match_branches =
           [i \in DOMAIN @ |->
               [@[i] EXCEPT !.block = block_replace_exprs(@, old_expr, new_expr)]],
       !.else_branch = [i \in DOMAIN @ |-> block_replace_exprs(@[i], old_expr, new_expr)]]

\* BlockStatement::replace_exprs
statement_replace_exprs(stmt, old_expr, new_expr) ==
    CASE stmt.stmt = "Constraint" ->
            [stmt EXCEPT !.expr = ReplaceKey(@, old_expr, new_expr)]
      [] stmt.stmt = "If" -> if_decl_replace_exprs(stmt, old_expr, new_expr)
      [] stmt.stmt = "Match" -> match_decl_replace_exprs(stmt, old_expr, new_expr)

\* `.iter_mut().for_each(|stmt| stmt.replace_exprs(old_expr, new_expr))`
block_replace_exprs(block, old_expr, new_expr) ==
    [i \in DOMAIN block |-> statement_replace_exprs(block[i], old_expr, new_expr)]

\* Predicate::replace_exprs
predicate_replace_exprs(pred, old_expr, new_expr) ==
    [pred EXCEPT
       !.var_types = [i \in DOMAIN @ |-> replace_type_expr(@[i], old_expr, new_expr)],
       !.state_types = [i \in DOMAIN @ |-> replace_type_expr(@[i], old_expr, new_expr)],
       !.states = [i \in DOMAIN @ |->
                      [@[i] EXCEPT !.expr = ReplaceKey(@, old_expr, new_expr)]],
       !.constraints = [i \in DOMAIN @ |->
                           [@[i] EXCEPT !.expr = ReplaceKey(@, old_expr, new_expr)]],
       !.if_decls = [i \in DOMAIN @ |-> if_decl_replace_exprs(@[i], old_expr, new_expr)],
       !.var_inits = [i \in DOMAIN @ |-> ReplaceKey(@[i], old_expr, new_expr)],
       !.interface_instances =
           [i \in DOMAIN @ |->
               [@[i] EXCEPT !.address = ReplaceKey(@, old_expr, new_expr)]],
       !.predicate_instances =
           [i \in DOMAIN @ |->
               [@[i] EXCEPT !.address =
                   [j \in DOMAIN @ |-> ReplaceKey(@[j], old_expr, new_expr)]]]]

ReplaceStorageTypes(storage_vars, old_expr, new_expr) ==
    [i \in DOMAIN storage_vars |->
        [storage_vars[i] EXCEPT !.ty = replace_type_expr(@, old_expr, new_expr)]]

\* Contract::replace_exprs; pred_key is << >> for None and <<key>> for Some
contract_replace_exprs(c, pred_key, old_expr, new_expr) ==
    [c EXCEPT
       !.exprs = [k \in DOMAIN @ |-> replace_one_to_one(@[k], old_expr, new_expr)],
       !.expr_types = [k \in DOMAIN @ |-> replace_type_expr(@[k], old_expr, new_expr)],
       !.consts = [i \in DOMAIN @ |->
                      [expr |-> ReplaceKey(@[i].expr, old_expr, new_expr),
                       decl_ty |-> replace_type_expr(@[i].decl_ty, old_expr, new_expr)]],
       !.storage = [i \in DOMAIN @ |-> ReplaceStorageTypes(@[i], old_expr, new_expr)],
       !.new_types = ReplaceStorageTypes(@, old_expr, new_expr),
       !.interfaces =
           [i \in DOMAIN @ |->
               [storage |-> [j \in DOMAIN @[i].storage |->
                               ReplaceStorageTypes(@[i].storage[j], old_expr, new_expr)],
                predicate_interfaces |->
                    [j \in DOMAIN @[i].predicate_interfaces |->
                        [vars |-> ReplaceStorageTypes(@[i].predicate_interfaces[j].vars,
                                                      old_expr, new_expr)]]]],
       !.preds = [p \in DOMAIN @ |->
                     IF pred_key = <<p>>
                     THEN predicate_replace_exprs(@[p], old_expr, new_expr)
                     ELSE @[p]]]

\* ---- the contracts: one reference to an expression key at every place ----
Slots ==
    { "exprs." \o ToString(k) : k \in Keys }
      \cup { "expr_types." \o ToString(k) : k \in Keys }
      \cup { "consts.expr", "consts.decl_ty", "storage.ty", "new_types.ty",
             "interfaces.storage.ty", "interfaces.vars.ty",
             "var_types", "state_types", "states.expr", "constraints.expr",
             "if.condition", "if.then.constraint", "if.then.if.condition",
             "if.then.match.match_expr", "if.else.constraint",
             "match.match_expr", "match.branch.constraint", "match.else.constraint",
             "var_inits", "interface_instances.address",
             "predicate_instances.address" }

Ty1(k) == [ty |-> RangeTy(k)]

\* the predicate whose references are given by r
PredOf(r) ==
    [var_types |-> <<RangeTy(r["var_types"])>>,
     state_types |-> <<RangeTy(r["state_types"])>>,
     states |-> <<[expr |-> r["states.expr"]]>>,
     constraints |-> <<ConstraintDecl(r["constraints.expr"])>>,
     if_decls |->
        <<IfDecl(r["if.condition"],
                 <<ConstraintDecl(r["if.then.constraint"]),
                   IfDecl(r["if.then.if.condition"], << >>, << >>),
                   MatchDecl(r["if.then.match.match_expr"], << >>, << >>)>>,
                 <<<<ConstraintDecl(r["if.else.constraint"])>>>>)>>,
     match_decls |->
        <<MatchDecl(r["match.match_expr"],
                    <<MatchDeclBranch(<<ConstraintDecl(r["match.branch.constraint"])>>)>>,
                    <<<<ConstraintDecl(r["match.else.constraint"])>>>>)>>,
     var_inits |-> <<r["var_inits"]>>,
     interface_instances |-> <<[address |-> r["interface_instances.address"]]>>,
     predicate_instances |->
        <<[address |-> <<r["predicate_instances.address"]>>], [address |-> << >>]>>]

\* the contract whose references are given by r, with the one predicate 1
ContractOf(r) ==
    [exprs |-> [k \in Keys |-> NestedExpr(r["exprs." \o ToString(k)])],
     expr_types |-> [k \in Keys |-> RangeTy(r["expr_types." \o ToString(k)])],
     consts |-> <<[expr |-> r["consts.expr"], decl_ty |-> RangeTy(r["consts.decl_ty"])]>>,
     storage |-> <<<<Ty1(r["storage.ty"])>>>>,
     new_types |-> <<Ty1(r["new_types.ty"])>>,
     interfaces |->
        <<[storage |-> <<<<Ty1(r["interfaces.storage.ty"])>>>>,
           predicate_interfaces |-> <<[vars |-> <<Ty1(r["interfaces.vars.ty"])>>]>>]>>,
     preds |-> <<PredOf(r)>>]

\* the key a contract holds at a place
Ref(c, s) ==
    LET p == c.preds[1]
        if_decl == p.if_decls[1]
        match_decl == p.match_decls[1]
    IN CASE \E k \in Keys : s = "exprs." \o ToString(k) ->
              c.exprs[CHOOSE k \in Keys : s = "exprs." \o ToString(k)].nested
         [] \E k \in Keys : s = "expr_types." \o ToString(k) ->
              c.expr_types[CHOOSE k \in Keys : s = "expr_types." \o ToString(k)].range
         [] s = "consts.expr" -> c.consts[1].expr
         [] s = "consts.decl_ty" -> c.consts[1].decl_ty.range
         [] s = "storage.ty" -> c.storage[1][1].ty.range
         [] s = "new_types.ty" -> c.new_types[1].ty.range
         [] s = "interfaces.storage.ty" -> c.interfaces[1].storage[1][1].ty.range
         [] s = "interfaces.vars.ty" ->
              c.interfaces[1].predicate_interfaces[1].vars[1].ty.range
         [] s = "var_types" -> p.var_types[1].range
         [] s = "state_types" -> p.state_types[1].range
         [] s = "states.expr" -> p.states[1].expr
         [] s = "constraints.expr" -> p.constraints[1].expr
         [] s = "if.condition" -> if_decl.condition
         [] s = "if.then.constraint" -> if_decl.then_block[1].expr
         [] s = "if.then.if.condition" -> if_decl.then_block[2].condition
         [] s = "if.then.match.match_expr" -> if_decl.then_block[3].match_expr
         [] s = "if.else.constraint" -> if_decl.else_block[1][1].expr
         [] s = "match.match_expr" -> match_decl.match_expr
         [] s = "match.branch.constraint" -> match_decl.match_branches[1].block[1].expr
         [] s = "match.else.constraint" -> match_decl.else_branch[1][1].expr
         [] s = "var_inits" -> p.var_inits[1]
         [] s = "interface_instances.address" -> p.interface_instances[1].address
         [] s = "predicate_instances.address" -> p.predicate_instances[1].address[1]

\* every place holds the key base but two, which hold k1 and k2
Contracts ==
    { ContractOf([s \in Slots |-> IF s = s1 THEN k1 ELSE IF s = s2 THEN k2 ELSE base]) :
        s1 \in Slots, s2 \in Slots, k1 \in Keys, k2 \in Keys, base \in Keys }

ReplaceArgs(pred_key, old_expr, new_expr) ==
    [pred_key |-> pred_key, old_expr |-> old_expr, new_expr |-> new_expr]

ReplInit ==
    /\ contract \in Contracts
    /\ rp_args \in { ReplaceArgs(pk, ks[1], ks[2]) :
                        pk \in {<< >>, <<1>>},
                        ks \in { ks \in Keys \X Keys : ks[1] /= ks[2] } }
    /\ rp_pc = "call"
    /\ rp_before = contract
    /\ BuildIdle
    /\ AsmIdle
    /\ ScalIdle
    /\ LibIdle
    /\ SymIdle
    /\ ProgIdle
    /\ IterIdle

\* contract.replace_exprs(pred_key, old_expr, new_expr)
ReplaceExprs ==
    /\ rp_pc = "call"
    /\ contract' = contract_replace_exprs(contract, rp_args.pred_key, rp_args.old_expr,
                                          rp_args.new_expr)
    /\ rp_pc' = "replaced"
    /\ UNCHANGED <<rp_args, rp_before>>
    /\ UNCHANGED nonReplVars

\* contract.exprs.remove(old_expr), as the callers do after the replacement
RemoveOldExpr ==
    /\ rp_pc = "replaced"
    /\ contract' = [contract EXCEPT
                      !.exprs = [k \in DOMAIN @ \ {rp_args.old_expr} |-> @[k]],
                      !.expr_types = [k \in DOMAIN @ \ {rp_args.old_expr} |-> @[k]]]
    /\ rp_pc' = "removed"
    /\ UNCHANGED <<rp_args, rp_before>>
    /\ UNCHANGED nonReplVars

ReplNext == ReplaceExprs \/ RemoveOldExpr

SpecRepl == ReplInit /\ [][ReplNext]_vars

\* ---- the claim ----
\* the places whose expression is still in the table
LiveSlots ==
    { s \in Slots :
        \A k \in Keys \ DOMAIN contract.exprs :
            s \notin {"exprs." \o ToString(k), "expr_types." \o ToString(k)} }

\* the top-level match declarations of the predicate
MatchDeclSlots == {"match.match_expr", "match.branch.constraint", "match.else.constraint"}

Scoped == rp_args.pred_key = <<1>>

\* the places in S hold new where they held old, and what they held otherwise
ReplacedAt(S) ==
    \A s \in S \cap LiveSlots :
        Ref(contract, s) = ReplaceKey(Ref(rp_before, s), rp_args.old_expr,
                                      rp_args.new_expr)

\* no place in S holds a key that is not in the expression table
NoneDangling(S) ==
    \A s \in S \cap LiveSlots : Ref(contract, s) \in DOMAIN contract.exprs

\* C26 as stated: after replace_exprs(Some(pred), old, new) every reference
\* to old in the expression table, the types, the consts, the storage,
\* interface and new-type types and in the predicate's var and state types,
\* state expressions, constraints, if declarations, match declarations, var
\* initializers and instance addresses holds new, every other reference is
\* unchanged, and removing old afterwards leaves no dangling key.
CE_C26_AsStated ==
    (Scoped /\ rp_pc \in {"replaced", "removed"}) =>
        /\ ReplacedAt(Slots)
        /\ rp_pc = "removed" => NoneDangling(Slots)

\* what replace_exprs does: every place but the predicate's top-level match
\* declarations is rewritten, those are left as they were.
T_C26_ButMatchDecls ==
    (Scoped /\ rp_pc \in {"replaced", "removed"}) =>
        /\ ReplacedAt(Slots \ MatchDeclSlots)
        /\ rp_pc = "removed" => NoneDangling(Slots \ MatchDeclSlots)
        /\ \A s \in MatchDeclSlots : Ref(contract, s) = Ref(rp_before, s)

\* a match declaration nested in an if declaration was rewritten, the
\* top-level one holds the removed key
W_C26_TopLevelMatchDangling ==
    /\ Scoped
    /\ rp_pc = "removed"
    /\ Ref(rp_before, "if.then.match.match_expr") = rp_args.old_expr
    /\ Ref(contract, "if.then.match.match_expr") = rp_args.new_expr
    /\ Ref(contract, "match.match_expr") = rp_args.old_expr
    /\ Ref(contract, "match.match_expr") \notin DOMAIN contract.exprs

(***************************************************************************)
(* The iterate! loop (yurtc/src/intermediate/transform/scalarize.rs) on a  *)
(* step that reports a modification a given number of times.               *)
(***************************************************************************)
\* how often the step reports a modification before it reports none
StepCounts ==
    {0, 1, LoopCheckLimit - 1, LoopCheckLimit, LoopCheckLimit + 1, LoopCheckLimit + 2,
     LoopCheckLimit + 3}

IterInit ==
    /\ it_steps \in StepCounts
    /\ it_done = 0
    /\ it_loop_check = 0
    /\ it_modified = FALSE
    /\ it_pc = "loop"
    /\ BuildIdle
    /\ AsmIdle
    /\ ScalIdle
    /\ LibIdle
    /\ SymIdle
    /\ ProgIdle
    /\ ReplIdle

\* the body of `for loop_check in 0..` that fails at the limit itself
iterate_body_AtLimit(check, continue_expr) ==
    IF ~continue_expr THEN [pc |-> "break", modified |-> FALSE, loop_check |-> check]
    ELSE IF check >= LoopCheckLimit
    THEN [pc |-> "Err", modified |-> TRUE, loop_check |-> check]
    ELSE [pc |-> "loop", modified |-> TRUE, loop_check |-> check + 1]

\* the body of `for loop_check in 0..`: break when the step reports no
\* modification, else set the flag and fail when loop_check > 10_000
iterate_body(check, continue_expr) ==
    IF ~continue_expr THEN [pc |-> "break", modified |-> FALSE, loop_check |-> check]
    ELSE IF check > LoopCheckLimit
    THEN [pc |-> "Err", modified |-> TRUE, loop_check |-> check]
    ELSE [pc |-> "loop", modified |-> TRUE, loop_check |-> check + 1]

\* one iteration; the step is evaluated first and reports a modification
\* while it has any left
IterateOnce ==
    /\ it_pc = "loop"
    /\ LET continue_expr == it_done < it_steps
       IN /\ it_done' = IF continue_expr THEN it_done + 1 ELSE it_done
          /\ \E r \in {iterate_body(it_loop_check, continue_expr)} :
                /\ it_pc' = r.pc
                /\ it_modified' = (it_modified \/ r.modified)
                /\ it_loop_check' = r.loop_check
    /\ UNCHANGED it_steps
    /\ UNCHANGED nonIterVars

IterNext == IterateOnce

SpecIter == IterInit /\ [][IterNext]_vars

\* C27 as stated: a loop whose step reports a modification more than 10,000
\* times returns the Internal `infinite loop` error, and a loop whose step
\* reports a modification at most 10,000 times and then none returns
\* normally.
CE_C27_AsStated ==
    /\ it_pc = "break" => it_done <= LoopCheckLimit
    /\ it_pc = "Err" => it_done > LoopCheckLimit

\* what the loop does: loop_check counts from 0 and the test is
\* loop_check > 10_000 after the step, so the error comes with the 10,002nd
\* modification; a step that reports up to 10,001 modifications and then
\* none leaves the loop normally, with the flag set when it reported any.
T_C27_CapAfter10001 ==
    /\ it_pc = "break" => /\ it_done = it_steps
                          /\ it_done <= LoopCheckLimit + 1
                          /\ it_modified = (it_steps > 0)
    /\ it_pc = "Err" => /\ it_done = LoopCheckLimit + 2
                        /\ it_steps >= LoopCheckLimit + 2
                        /\ it_modified
    /\ it_pc = "loop" => it_done = it_loop_check /\ it_done <= LoopCheckLimit + 1

\* the step reported 10,001 modifications and the loop ended normally
W_C27_Returned10001 ==
    /\ it_pc = "break"
    /\ it_done = LoopCheckLimit + 1

====
